---- MODULE Spec2Model ----
(***************************************************************************)
(* A model of traycer-lite: the patch applier, the change statistics and   *)
(* the reconstruction orchestrator of utils/fileReconstruction.ts, the     *)
(* step-execution hook of hooks/useStepExecution.ts and the export panel.  *)
(*                                                                         *)
(* A JavaScript string is a sequence of one-character strings, so that     *)
(* split, join, startsWith, substring and the regular expressions of the   *)
(* source are computed character by character.                             *)
(***************************************************************************)
EXTENDS Integers, Sequences, FiniteSets, TLC

VARIABLES
  \* applyUnifiedDiff, one loop iteration per step
  content, diff, lines, diffLines, currentLineIndex, i, pc,
  \* calculateChangeStats and generateChangesSummary
  statOriginal, statCorrected, statPatches, stats, changesSummary, statPc,
  \* page.tsx and useStepExecution: the plan, the hook's state, the requests
  currentPlan, stepExecutions, executingSteps, acceptedSteps,
  executionErrors, abortControllers, calls,
  \* reconstructFiles: its arguments, its locals and those of the functions
  \* it calls, its result, and where it stands
  codeContext, executions, parsedContext, patchesByFile, executionIndex,
  fileIndex, filePatches, currentContent, patchIndex, reconstructedFiles,
  reconPc,
  \* the calls of reconstructFiles that have ended: arguments and result
  earlierCalls,
  \* the execute-step route and parseStepExecutionResponse: the id of the
  \* step in the request, the text of the generation service, the JSON span,
  \* the attempts made, the result of the latest one, the reply of the route
  bodyStepId, response, rawJson, attempts, parseOutcome, reply, normPc,
  \* DiffViewer's parsedDiff: its props, the lines of the diff, the records
  \* pushed so far, the two line counters, the position of the for loop
  viewerFormat, viewerDiff, viewerLines, parsedDiff, oldLineNum, newLineNum,
  viewerIndex, viewerPc

applyVars == <<content, diff, lines, diffLines, currentLineIndex, i, pc>>
statVars ==
  <<statOriginal, statCorrected, statPatches, stats, changesSummary, statPc>>

hookVars ==
  <<currentPlan, stepExecutions, executingSteps, acceptedSteps,
    executionErrors, abortControllers, calls>>

reconVars ==
  <<codeContext, executions, parsedContext, patchesByFile, executionIndex,
    fileIndex, filePatches, currentContent, patchIndex, reconstructedFiles,
    reconPc, earlierCalls>>

normVars ==
  <<bodyStepId, response, rawJson, attempts, parseOutcome, reply, normPc>>

viewerVars ==
  <<viewerFormat, viewerDiff, viewerLines, parsedDiff, oldLineNum,
    newLineNum, viewerIndex, viewerPc>>

vars == <<applyVars, statVars, hookVars, reconVars, normVars, viewerVars>>

notApplyVars == <<statVars, hookVars, reconVars, normVars, viewerVars>>
notStatVars == <<applyVars, hookVars, reconVars, normVars, viewerVars>>
notHookVars == <<applyVars, statVars, reconVars, normVars, viewerVars>>
notReconVars == <<applyVars, statVars, hookVars, normVars, viewerVars>>
notNormVars == <<applyVars, statVars, hookVars, reconVars, viewerVars>>
notViewerVars == <<applyVars, statVars, hookVars, reconVars, normVars>>

(***************************************************************************)
(* Bounds of the model.                                                    *)
(***************************************************************************)
\* the most lines of an original buffer, and the most lines of a diff
MaxLines == 3
MaxDiffLines == 3
\* the most patches accepted for one reconstruction
MaxPatches == 3
\* the most steps of a plan, and the most executeStepById calls of a run
MaxSteps == 2
MaxCalls == 3
\* the calls of reconstructFiles that are compared with each other
ReconCalls == 2


(***************************************************************************)
(* Strings.                                                                *)
(***************************************************************************)
NL == "\n"

Max(a, b) == IF a >= b THEN a ELSE b
Min(a, b) == IF a <= b THEN a ELSE b

\* content.split('\n'): always at least one element
RECURSIVE split(_)
split(t) ==
  IF \E k \in 1..Len(t) : t[k] = NL
  THEN LET k == CHOOSE k \in 1..Len(t) :
                  t[k] = NL /\ \A j \in 1..(k - 1) : t[j] # NL
       IN <<SubSeq(t, 1, k - 1)>> \o split(SubSeq(t, k + 1, Len(t)))
  ELSE <<t>>

\* lines.join('\n'): the empty array joins to the empty string
RECURSIVE join(_)
join(ls) ==
  IF Len(ls) = 0 THEN <<>>
  ELSE IF Len(ls) = 1 THEN ls[1]
  ELSE ls[1] \o <<NL>> \o join(Tail(ls))

startsWith(line, c) == Len(line) >= 1 /\ line[1] = c

\* line.substring(1)
substring(line, from) == SubSeq(line, from + 1, Len(line))

\* Array.prototype.splice(start, deleteCount, ...items) on a 0-based start:
\* a negative start counts from the end, a start past the end is the end.
splice(arr, start, deleteCount, items) ==
  LET len == Len(arr)
      from == IF start < 0 THEN Max(len + start, 0) ELSE Min(start, len)
      dc == Min(Max(deleteCount, 0), len - from)
  IN SubSeq(arr, 1, from) \o items \o SubSeq(arr, from + dc + 1, len)

(***************************************************************************)
(* Regular expressions, with the priority order of JavaScript's matcher: a *)
(* greedy quantifier tries its longest run first, a lazy one its shortest, *)
(* an alternation its left branch first.                                   *)
(***************************************************************************)
Digits == {"0", "1", "2", "3", "4", "5", "6", "7", "8", "9"}
Letters == {"a", "b", "c", "d", "e", "f", "g", "h", "i", "j", "k", "l", "m",
            "n", "o", "p", "q", "r", "s", "t", "u", "v", "w", "x", "y", "z",
            "A", "B", "C", "D", "E", "F", "G", "H", "I", "J", "K", "L", "M",
            "N", "O", "P", "Q", "R", "S", "T", "U", "V", "W", "X", "Y", "Z"}
WordChars == Letters \cup Digits \cup {"_"}
WhiteSpace == {" ", "\t", "\n", "\r", "\f"}

RxIn(S) == [t |-> "set", neg |-> FALSE, s |-> S]
RxNotIn(S) == [t |-> "set", neg |-> TRUE, s |-> S]
RxChr(c) == RxIn({c})
RxCat(rs) == [t |-> "seq", r |-> rs]
RxAlt(rs) == [t |-> "alt", r |-> rs]
\* a quantified character class, max < 0: unbounded
RxRun(r, min, max, lazy) ==
  [t |-> "run", r |-> r, min |-> min, max |-> max, lazy |-> lazy]
RxPlus(r) == RxRun(r, 1, -1, FALSE)
RxStar(r) == RxRun(r, 0, -1, FALSE)
RxPlusLazy(r) == RxRun(r, 1, -1, TRUE)
RxStarLazy(r) == RxRun(r, 0, -1, TRUE)
\* (?:r)? and (r)?
RxOpt(r) == [t |-> "opt", r |-> r]
\* (?:r)* and (?:r)*?
RxRep(r, lazy) == [t |-> "rep", r |-> r, lazy |-> lazy]
RxCap(n, r) == [t |-> "cap", n |-> n, r |-> r]
RxBol(multiline) == [t |-> "bol", m |-> multiline]
RxEol(multiline) == [t |-> "eol", m |-> multiline]
RxLook(r) == [t |-> "look", r |-> r]
RxLit(s) == RxCat([k \in 1..Len(s) |-> RxChr(s[k])])

NoMatch == [ok |-> FALSE]
NoCaps == [n \in 1..4 |-> <<0, 0>>]

\* the concatenation of a sequence of sequences
RECURSIVE FlatSeq(_)
FlatSeq(ss) ==
  IF Len(ss) = 0 THEN <<>>
  ELSE IF Len(ss) = 1 THEN ss[1]
  ELSE LET h == Len(ss) \div 2
       IN FlatSeq(SubSeq(ss, 1, h)) \o FlatSeq(SubSeq(ss, h + 1, Len(ss)))

InSet(n, ch) == (ch \in n.s) # n.neg

\* the number of characters from index p on that are in the class n
RunLength(n, txt, p) ==
  LET stops == {q \in p..Len(txt) : ~InSet(n, txt[q])}
  IN IF stops = {} THEN Len(txt) + 1 - p
     ELSE (CHOOSE q \in stops : \A q2 \in stops : q <= q2) - p

\* Every way node n matches txt from index p, as [end, caps] records in the
\* order in which a backtracking matcher tries them: the first one that lets
\* the rest of the pattern match is the match.
RECURSIVE RxEnds(_, _, _, _)
RECURSIVE RxSeqEnds(_, _, _, _)
RECURSIVE RxRepEnds(_, _, _, _)
RxEnds(n, txt, p, c) ==
  CASE n.t = "set" ->
         IF p <= Len(txt) /\ InSet(n, txt[p])
         THEN <<[end |-> p + 1, caps |-> c]>> ELSE <<>>
    [] n.t = "seq" -> RxSeqEnds(n.r, 1, txt, <<[end |-> p, caps |-> c]>>)
    [] n.t = "alt" ->
         FlatSeq([k \in 1..Len(n.r) |-> RxEnds(n.r[k], txt, p, c)])
    [] n.t = "run" ->
         LET avail == RunLength(n.r, txt, p)
             most == IF n.max < 0 THEN avail ELSE Min(avail, n.max)
         IN IF most < n.min THEN <<>>
            ELSE [k \in 1..(most - n.min + 1) |->
                    [end |-> IF n.lazy THEN p + n.min + (k - 1)
                                       ELSE p + most - (k - 1),
                     caps |-> c]]
    [] n.t = "opt" -> RxEnds(n.r, txt, p, c) \o <<[end |-> p, caps |-> c]>>
    [] n.t = "rep" -> RxRepEnds(n, txt, p, c)
    [] n.t = "cap" ->
         LET rs == RxEnds(n.r, txt, p, c)
         IN [k \in 1..Len(rs) |->
               [end |-> rs[k].end,
                caps |-> [rs[k].caps EXCEPT ![n.n] = <<p, rs[k].end>>]]]
    [] n.t = "bol" ->
         IF p = 1 \/ (n.m /\ txt[p - 1] = NL)
         THEN <<[end |-> p, caps |-> c]>> ELSE <<>>
    [] n.t = "eol" ->
         IF p = Len(txt) + 1 \/ (n.m /\ txt[p] = NL)
         THEN <<[end |-> p, caps |-> c]>> ELSE <<>>
    [] n.t = "look" ->
         IF Len(RxEnds(n.r, txt, p, c)) > 0
         THEN <<[end |-> p, caps |-> c]>> ELSE <<>>

\* a quantified group: an iteration that matches the empty string ends the
\* repetition
RxRepEnds(n, txt, p, c) ==
  LET once == RxEnds(n.r, txt, p, c)
      more == FlatSeq([k \in 1..Len(once) |->
                         IF once[k].end > p
                         THEN RxRepEnds(n, txt, once[k].end, once[k].caps)
                         ELSE <<>>])
      none == <<[end |-> p, caps |-> c]>>
  IN IF n.lazy THEN none \o more ELSE more \o none

\* acc: the partial matches after the first k - 1 nodes of rs
RxSeqEnds(rs, k, txt, acc) ==
  IF k > Len(rs) \/ Len(acc) = 0 THEN acc
  ELSE RxSeqEnds(rs, k + 1, txt,
         FlatSeq([j \in 1..Len(acc) |->
                    RxEnds(rs[k], txt, acc[j].end, acc[j].caps)]))

\* the leftmost match at or after index from (String.prototype.match, exec)
RxSearch(re, txt, from) ==
  LET starts == {p \in from..(Len(txt) + 1) :
                   Len(RxEnds(re, txt, p, NoCaps)) > 0}
  IN IF starts = {} THEN NoMatch
     ELSE LET p == CHOOSE p \in starts : \A q \in starts : p <= q
              m == RxEnds(re, txt, p, NoCaps)[1]
          IN [ok |-> TRUE, start |-> p, end |-> m.end, caps |-> m.caps]

\* the text of capture group n of a match (the empty string when unset)
RxGroup(txt, m, n) == SubSeq(txt, m.caps[n][1], m.caps[n][2] - 1)
RxHas(m, n) == m.caps[n][1] > 0

DigitVal(ch) ==
  CASE ch = "0" -> 0 [] ch = "1" -> 1 [] ch = "2" -> 2 [] ch = "3" -> 3
    [] ch = "4" -> 4 [] ch = "5" -> 5 [] ch = "6" -> 6 [] ch = "7" -> 7
    [] ch = "8" -> 8 [] ch = "9" -> 9

\* parseInt of a run of decimal digits
RECURSIVE parseInt(_)
parseInt(ds) ==
  IF Len(ds) = 0 THEN 0
  ELSE 10 * parseInt(SubSeq(ds, 1, Len(ds) - 1)) + DigitVal(ds[Len(ds)])

(***************************************************************************)
(* Inputs of the applier.                                                  *)
(***************************************************************************)
SeqsUpTo(S, n) == UNION {[1..k -> S] : k \in 0..n}

DigitChar(n) == CHOOSE ch \in Digits : DigitVal(ch) = n

\* "@@ -s,1 +s,1 @@"
HeaderLine(s) ==
  <<"@", "@", " ", "-", DigitChar(s), ",", "1", " ", "+", DigitChar(s),
    ",", "1", " ", "@", "@">>

ContentLinePool == {<<"a">>, <<"b">>}

DiffLinePool ==
  {HeaderLine(s) : s \in 0..MaxLines}
    \cup {<<" ", "a">>, <<"+", "x">>, <<"-", "a">>, <<"x">>}

Contents == {join(ls) : ls \in SeqsUpTo(ContentLinePool, MaxLines)}

Diffs == {join(ls) : ls \in SeqsUpTo(DiffLinePool, MaxDiffLines) \ {<<>>}}

(***************************************************************************)
(* Inputs of the orchestrator: code contexts of each tier of the splitter, *)
(* and diffs with and without file-header lines.                           *)
(***************************************************************************)
FooTs == <<"f", "o", "o", ".", "t", "s">>
BarTs == <<"b", "a", "r", ".", "t", "s">>
ValueOf == <<"v", "a", "l", "u", "e", "O", "f">>
\* the grave accent U+0060, a character that a TLA+ string cannot hold
BackTick == "U+0060"
Fence == <<BackTick, BackTick, BackTick>>

\* the empty string
EmptyContext == <<>>
\* whitespace only
BlankContext == <<" ", NL>>
\* no marker at all
PlainContext == join(<<<<"a">>, <<"b">>>>)
\* "File: foo.ts" and a fence tagged ts
MarkdownContext ==
  join(<<<<"F", "i", "l", "e", ":", " ", "f", "o", "o", ".", "t", "s">>,
         Fence \o <<"t", "s">>, <<"a">>, <<"b">>, Fence>>)
\* "File: bar.ts" and "File: foo.ts", each with an untagged fence
TwoFilesContext ==
  join(<<<<"F", "i", "l", "e", ":", " ", "b", "a", "r", ".", "t", "s">>,
         Fence, <<"b">>, Fence,
         <<"F", "i", "l", "e", ":", " ", "f", "o", "o", ".", "t", "s">>,
         Fence, <<"a">>, <<"b">>, Fence>>)
\* "// foo.ts" above the code
CommentContext == join(<<<<"/", "/", " ">> \o FooTs, <<"a">>, <<"b">>>>)
\* two fences without a name
FencesContext == join(<<Fence, <<"a">>, Fence, Fence, <<"b">>, Fence>>)
\* one fence without a name
OneFenceContext == join(<<Fence, <<"a">>, Fence>>)
\* a file named like a property every object inherits
InheritedNameContext ==
  join(<<<<"F", "i", "l", "e", ":", " ", "v", "a", "l", "u", "e", "O", "f">>,
         Fence, <<"a">>, Fence>>)

CodeContexts ==
  {EmptyContext, BlankContext, PlainContext, MarkdownContext,
   TwoFilesContext, CommentContext, FencesContext, OneFenceContext,
   InheritedNameContext}

MinusHeader(path) == <<"-", "-", "-", " ", "a", "/">> \o path
PlusHeader(path) == <<"+", "+", "+", " ", "b", "/">> \o path

\* no file header: insert x at the top, remove the first line
DiffInsert == join(<<HeaderLine(1), <<"+", "x">>>>)
DiffRemove == join(<<HeaderLine(1), <<"-", "a">>>>)
\* "+++ b/foo.ts" alone, and after "--- a/bar.ts"
DiffPlusFoo == join(<<PlusHeader(FooTs), HeaderLine(1), <<"+", "x">>>>)
DiffMinusBarPlusFoo ==
  join(<<MinusHeader(BarTs), PlusHeader(FooTs), HeaderLine(1), <<"+", "x">>>>)
\* a patch for a file named valueOf
DiffPlusValueOf == join(<<PlusHeader(ValueOf), <<"+", "x">>>>)

ReconDiffs ==
  {<<>>, DiffInsert, DiffRemove, DiffPlusFoo, DiffMinusBarPlusFoo,
   DiffPlusValueOf}

\* an execution is its suggested_patch.diff (the empty string: no diff)
ReconExecutions == {[diff |-> d] : d \in ReconDiffs}

\* diffs of the dialect the generation service emits: with "---" and "+++"
\* file-header lines, with empty lines and lines without a marker
FileHeaderDiffLinePool ==
  {HeaderLine(0), HeaderLine(1), MinusHeader(FooTs), PlusHeader(FooTs),
   <<" ", "a">>, <<"+", "x">>, <<"-", "a">>, <<"x">>, <<>>}

FileHeaderDiffs ==
  {join(ls) : ls \in SeqsUpTo(FileHeaderDiffLinePool, MaxDiffLines) \ {<<>>}}

\* diffs of two hunks in ascending, non-overlapping order over a content of
\* lines ls: a hunk is the number of its first old line and the kinds of its
\* body lines, of which at least one is a line of ls
HunkLineKinds == {"context", "deletion", "addition"}

OldBefore(body, k) == Cardinality({j \in 1..(k - 1) : body[j] # "addition"})

OldCount(body) == OldBefore(body, Len(body) + 1)

NewCount(body) == Cardinality({j \in 1..Len(body) : body[j] # "deletion"})

Hunks(ls) ==
  {h \in [oldStart : 1..Len(ls),
          body : SeqsUpTo(HunkLineKinds, MaxDiffLines - 1)] :
     /\ OldCount(h.body) >= 1
     /\ h.oldStart + OldCount(h.body) - 1 <= Len(ls)}

HunkPairs(ls) ==
  {p \in Hunks(ls) \X Hunks(ls) :
     p[2].oldStart >= p[1].oldStart + OldCount(p[1].body)}

\* "@@ -s,n +t,m @@"
HunkHeader(s, n, t, m) ==
  <<"@", "@", " ", "-", DigitChar(s), ",", DigitChar(n), " ", "+",
    DigitChar(t), ",", DigitChar(m), " ", "@", "@">>

HunkBodyLine(ls, h, k) ==
  IF h.body[k] = "addition" THEN <<"+", "x">>
  ELSE IF h.body[k] = "deletion"
  THEN <<"-">> \o ls[h.oldStart + OldBefore(h.body, k)]
  ELSE <<" ">> \o ls[h.oldStart + OldBefore(h.body, k)]

HunkText(ls, h, newStart) ==
  <<HunkHeader(h.oldStart, OldCount(h.body), newStart, NewCount(h.body))>>
    \o [k \in 1..Len(h.body) |-> HunkBodyLine(ls, h, k)]

TwoHunkDiff(ls, p) ==
  join(HunkText(ls, p[1], p[1].oldStart)
         \o HunkText(ls, p[2], p[2].oldStart + NewCount(p[1].body)
                                               - OldCount(p[1].body)))

\* with and without a newline at the end of the text
TwoHunkDiffs(c) ==
  UNION {{TwoHunkDiff(split(c), p), TwoHunkDiff(split(c), p) \o <<NL>>} :
           p \in HunkPairs(split(c))}

TwoHunkDiffLines ==
  {HunkHeader(s, n, t, m) : s \in 1..MaxLines, n \in 1..(MaxDiffLines - 1),
                            t \in 1..(MaxLines + 1),
                            m \in 0..(MaxDiffLines - 1)}
    \cup {<<mk>> \o l : mk \in {" ", "-"}, l \in ContentLinePool \cup {<<>>}}
    \cup {<<"+", "x">>, <<>>}

\* every diff line in play
KnownDiffLines ==
  DiffLinePool \cup FileHeaderDiffLinePool \cup TwoHunkDiffLines
    \cup UNION {{split(d)[k] : k \in DOMAIN split(d)} : d \in ReconDiffs}

(***************************************************************************)
(* applyUnifiedDiff                                                        *)
(***************************************************************************)
\* /^@@\s+-(\d+)(?:,(\d+))?\s+\+(\d+)(?:,(\d+))?\s+@@/
hunkPattern ==
  RxCat(<<RxBol(FALSE), RxLit(<<"@", "@">>), RxPlus(RxIn(WhiteSpace)),
          RxChr("-"), RxCap(1, RxPlus(RxIn(Digits))),
          RxOpt(RxCat(<<RxChr(","), RxCap(2, RxPlus(RxIn(Digits)))>>)),
          RxPlus(RxIn(WhiteSpace)),
          RxChr("+"), RxCap(3, RxPlus(RxIn(Digits))),
          RxOpt(RxCat(<<RxChr(","), RxCap(4, RxPlus(RxIn(Digits)))>>)),
          RxPlus(RxIn(WhiteSpace)), RxLit(<<"@", "@">>)>>)

\* line.match(hunkPattern), computed once for each diff line in play
HunkMatches == [line \in KnownDiffLines |-> RxSearch(hunkPattern, line, 1)]

hunkMatch(line) == HunkMatches[line]

\* the four branches of one loop iteration, on [lines, currentLineIndex]
HunkHeaderLineOneBased(st, line) ==
  [st EXCEPT !.currentLineIndex = parseInt(RxGroup(line, hunkMatch(line), 1))]

HunkHeaderLine(st, line) ==
  LET oldStart == parseInt(RxGroup(line, hunkMatch(line), 1)) - 1
  IN [st EXCEPT !.currentLineIndex = oldStart]

RemoveLine(st) ==
  IF st.currentLineIndex < Len(st.lines)
  THEN [st EXCEPT !.lines = splice(st.lines, st.currentLineIndex, 1, <<>>)]
  ELSE st

AddLineOverwrites(st, line) ==
  [lines |-> splice(st.lines, st.currentLineIndex, 1, <<substring(line, 1)>>),
   currentLineIndex |-> st.currentLineIndex + 1]

AddLine(st, line) ==
  LET newLine == substring(line, 1)
  IN [lines |-> splice(st.lines, st.currentLineIndex, 0, <<newLine>>),
      currentLineIndex |-> st.currentLineIndex + 1]

ContextLineInserted(st) ==
  [lines |-> splice(st.lines, st.currentLineIndex, 0, <<<<>>>>),
   currentLineIndex |-> st.currentLineIndex + 1]

ContextLine(st) == [st EXCEPT !.currentLineIndex = st.currentLineIndex + 1]

\* the body of the while loop for one diff line
ApplyDiffLine(st, line) ==
  IF hunkMatch(line).ok THEN HunkHeaderLine(st, line)
  ELSE IF startsWith(line, "-") THEN RemoveLine(st)
  ELSE IF startsWith(line, "+") THEN AddLine(st, line)
  ELSE IF startsWith(line, " ") THEN ContextLine(st)
  ELSE st

RECURSIVE ApplyDiffLines(_, _)
ApplyDiffLines(st, dls) ==
  IF Len(dls) = 0 THEN st
  ELSE ApplyDiffLines(ApplyDiffLine(st, Head(dls)), Tail(dls))

applyUnifiedDiff(c, d) ==
  join(ApplyDiffLines([lines |-> split(c), currentLineIndex |-> 0],
                      split(d)).lines)

(***************************************************************************)
(* The applier as a state machine: lines 191-195 are the initial state,    *)
(* each action is one iteration of the while loop.                         *)
(***************************************************************************)
ApplyState == [lines |-> lines, currentLineIndex |-> currentLineIndex]

ApplyOff ==
  /\ content = <<>>
  /\ diff = <<>>
  /\ lines = <<>>
  /\ diffLines = <<>>
  /\ currentLineIndex = 0
  /\ i = 0
  /\ pc = "off"

NoStats == [linesAdded |-> 0, linesRemoved |-> 0, totalChanges |-> 0]

StatsOff ==
  /\ statOriginal = <<>>
  /\ statCorrected = <<>>
  /\ statPatches = <<>>
  /\ stats = NoStats
  /\ changesSummary = ""
  /\ statPc = "off"

\* a step id, as the plans of the generation service name their steps
StepId(k) == "step-" \o ToString(k)

StepIds == {StepId(k) : k \in 1..MaxSteps}

\* PlanEditor handleAddStep, line 93: `s${plan.steps.length + 1}`
newStepId(steps) == "s" \o ToString(Len(steps) + 1)

\* the ids handleAddStep can give while the plan has fewer than MaxSteps steps
AddedStepIds == {"s" \o ToString(n) : n \in 1..MaxSteps}

KnownStepIds == StepIds \cup AddedStepIds

\* currentPlan is null until a plan is generated
NoPlan == [present |-> FALSE, steps |-> <<>>, titles |-> <<>>]

HookOff ==
  /\ currentPlan = NoPlan
  /\ stepExecutions = [id \in KnownStepIds |-> 0]
  /\ executingSteps = {}
  /\ acceptedSteps = <<>>
  /\ executionErrors = [id \in KnownStepIds |-> 0]
  /\ abortControllers = [id \in KnownStepIds |-> 0]
  /\ calls = <<>>

\* reconstructFiles before its first line: [threw, files] is the array it
\* returns, or the TypeError it throws
NotRun == [threw |-> FALSE, files |-> <<>>]

\* line 125, const patchesByFile = {}: an object of each call, or, were it
\* declared outside the function, the object the call before left behind
keptPatchesByFile == patchesByFile

newPatchesByFile == [threw |-> FALSE, own |-> <<>>]

ReconLocalsUnset ==
  /\ parsedContext = [files |-> <<>>, isSingleFile |-> TRUE]
  /\ patchesByFile = [threw |-> FALSE, own |-> <<>>]
  /\ executionIndex = 0
  /\ fileIndex = 1
  /\ filePatches = <<>>
  /\ currentContent = <<>>
  /\ patchIndex = 0
  /\ reconstructedFiles = NotRun

ReconOff ==
  /\ codeContext = <<>>
  /\ executions = <<>>
  /\ ReconLocalsUnset
  /\ reconPc = "off"
  /\ earlierCalls = <<>>

\* parseStepExecutionResponse before its first line
NotParsed == [threw |-> FALSE]
NoReply == [status |-> 0]

NormOff ==
  /\ bodyStepId = <<>>
  /\ response = <<>>
  /\ rawJson = <<>>
  /\ attempts = <<>>
  /\ parseOutcome = NotParsed
  /\ reply = NoReply
  /\ normPc = "off"

ViewerOff ==
  /\ viewerFormat = <<>>
  /\ viewerDiff = <<>>
  /\ viewerLines = <<>>
  /\ parsedDiff = <<>>
  /\ oldLineNum = 0
  /\ newLineNum = 0
  /\ viewerIndex = 0
  /\ viewerPc = "off"

InitApply ==
  /\ NormOff
  /\ ViewerOff
  /\ StatsOff
  /\ HookOff
  /\ ReconOff
  /\ content \in Contents
  /\ diff \in Diffs
  /\ lines = split(content)
  /\ diffLines = split(diff)
  /\ currentLineIndex = 0
  /\ i = 0
  /\ pc = "loop"

InitApplyFileHeaders ==
  /\ NormOff
  /\ ViewerOff
  /\ StatsOff
  /\ HookOff
  /\ ReconOff
  /\ content \in Contents
  /\ diff \in FileHeaderDiffs
  /\ lines = split(content)
  /\ diffLines = split(diff)
  /\ currentLineIndex = 0
  /\ i = 0
  /\ pc = "loop"

InitApplyTwoHunks ==
  /\ NormOff
  /\ ViewerOff
  /\ StatsOff
  /\ HookOff
  /\ ReconOff
  /\ content \in Contents
  /\ diff \in TwoHunkDiffs(content)
  /\ lines = split(content)
  /\ diffLines = split(diff)
  /\ currentLineIndex = 0
  /\ i = 0
  /\ pc = "loop"

Advance(st) ==
  /\ lines' = st.lines
  /\ currentLineIndex' = st.currentLineIndex
  /\ i' = i + 1
  /\ UNCHANGED <<content, diff, diffLines, pc>>
  /\ UNCHANGED notApplyVars

InLoop == pc = "loop" /\ i < Len(diffLines)

StepHunkHeader ==
  /\ InLoop
  /\ hunkMatch(diffLines[i + 1]).ok
  /\ Advance(HunkHeaderLine(ApplyState, diffLines[i + 1]))

StepRemove ==
  /\ InLoop
  /\ ~hunkMatch(diffLines[i + 1]).ok
  /\ startsWith(diffLines[i + 1], "-")
  /\ Advance(RemoveLine(ApplyState))

StepAdd ==
  /\ InLoop
  /\ ~hunkMatch(diffLines[i + 1]).ok
  /\ ~startsWith(diffLines[i + 1], "-")
  /\ startsWith(diffLines[i + 1], "+")
  /\ Advance(AddLine(ApplyState, diffLines[i + 1]))

StepContext ==
  /\ InLoop
  /\ ~hunkMatch(diffLines[i + 1]).ok
  /\ ~startsWith(diffLines[i + 1], "-")
  /\ ~startsWith(diffLines[i + 1], "+")
  /\ startsWith(diffLines[i + 1], " ")
  /\ Advance(ContextLine(ApplyState))

StepOther ==
  /\ InLoop
  /\ ~hunkMatch(diffLines[i + 1]).ok
  /\ ~startsWith(diffLines[i + 1], "-")
  /\ ~startsWith(diffLines[i + 1], "+")
  /\ ~startsWith(diffLines[i + 1], " ")
  /\ Advance(ApplyState)

StepReturn ==
  /\ pc = "loop"
  /\ i >= Len(diffLines)
  /\ pc' = "done"
  /\ UNCHANGED <<content, diff, lines, diffLines, currentLineIndex, i>>
  /\ UNCHANGED notApplyVars

\* the value returned at line 228
applyResult == join(lines)

NextApply ==
  \/ StepHunkHeader
  \/ StepRemove
  \/ StepAdd
  \/ StepContext
  \/ StepOther
  \/ StepReturn

SpecApply == InitApply /\ [][NextApply]_vars

SpecApplyFileHeaders == InitApplyFileHeaders /\ [][NextApply]_vars

SpecApplyTwoHunks == InitApplyTwoHunks /\ [][NextApply]_vars

\* the loop and the function compute the same result
ApplyAgrees == pc = "done" => applyResult = applyUnifiedDiff(content, diff)

(***************************************************************************)
(* Claims about applyUnifiedDiff.                                          *)
(***************************************************************************)
original == split(content)
IsFileHeaderLine(l) ==
  Len(l) >= 3 /\ SubSeq(l, 1, 3) \in {<<"-", "-", "-">>, <<"+", "+", "+">>}
IsMarked(l, ms) == Len(l) >= 1 /\ l[1] \in ms
hunkBody == Tail(diffLines)
\* the number of body lines before the j-th that consume an original line
Consumed(j) ==
  Cardinality({k \in 1..(j - 1) : IsMarked(hunkBody[k], {" ", "-"})})

\* one hunk header "@@ -s,.. +.. @@", 1 <= s <= n + 1, then only ' ', '-' and
\* '+' lines, no file header, consuming at most the lines s..n
C2_Shape(s) ==
  /\ s \in 1..(Len(original) + 1)
  /\ diffLines[1] = HeaderLine(s)
  /\ \A k \in 1..Len(hunkBody) :
        IsMarked(hunkBody[k], {" ", "-", "+"}) /\ ~IsFileHeaderLine(hunkBody[k])
  /\ Consumed(Len(hunkBody) + 1) <= Len(original) - s + 1

C2_Rest(s) ==
  SubSeq(original, s + Consumed(Len(hunkBody) + 1), Len(original))

\* the hunk body with the '-' lines dropped and the markers stripped
C2_BodyText ==
  FlatSeq([k \in 1..Len(hunkBody) |->
             IF IsMarked(hunkBody[k], {"-"}) THEN <<>>
             ELSE <<SubSeq(hunkBody[k], 2, Len(hunkBody[k]))>>])

\* the same, with the original line kept in place of each ' ' line
C2_BodyKept(s) ==
  FlatSeq([k \in 1..Len(hunkBody) |->
             IF IsMarked(hunkBody[k], {"-"}) THEN <<>>
             ELSE IF IsMarked(hunkBody[k], {" "})
             THEN <<original[s + Consumed(k)]>>
             ELSE <<SubSeq(hunkBody[k], 2, Len(hunkBody[k]))>>])

\* C2 as stated: for a single-hunk diff of that shape the result is the
\* original lines 1..s-1, then the text of the hunk body's ' ' and '+' lines,
\* then the original lines after those the hunk consumed, joined by newlines.
C2_BodyTextReplaces ==
  \A s \in 1..(MaxLines + 1) :
    (pc = "done" /\ C2_Shape(s)) =>
      applyResult = join(SubSeq(original, 1, s - 1) \o C2_BodyText \o C2_Rest(s))

\* C2 amended: for a single-hunk diff of that shape the result is the
\* original lines 1..s-1, then for each body line in order the original line
\* under the cursor for a ' ' line (whatever text the ' ' line carries),
\* nothing for a '-' line and the text after the marker for a '+' line, then
\* the original lines after those the hunk consumed, joined by newlines.
C2_ContextKeepsOriginal ==
  \A s \in 1..(MaxLines + 1) :
    (pc = "done" /\ C2_Shape(s)) =>
      applyResult = join(SubSeq(original, 1, s - 1) \o C2_BodyKept(s) \o C2_Rest(s))

\* a three-line buffer, a hunk at line 2 with a context line and an addition
C2_Witness ==
  /\ pc = "done"
  /\ C2_Shape(2)
  /\ Len(original) = 3
  /\ Len(hunkBody) = 2
  /\ IsMarked(hunkBody[1], {" "})
  /\ IsMarked(hunkBody[2], {"+"})
  /\ Len(lines) = 4

\* C9: a diff with no line starting with '+' or '-' (hunk headers, context
\* lines) returns content identical to the input.
C9_NoOpPatch ==
  (pc = "done" /\ \A k \in 1..Len(diffLines) : ~IsMarked(diffLines[k], {"+", "-"}))
    => applyResult = content

\* a hunk header and context lines have been walked over a two-line buffer
C9_Witness ==
  /\ pc = "done"
  /\ \A k \in 1..Len(diffLines) : ~IsMarked(diffLines[k], {"+", "-"})
  /\ hunkMatch(diffLines[1]).ok
  /\ \E k \in 1..Len(diffLines) : IsMarked(diffLines[k], {" "})
  /\ Len(original) >= 2
  /\ currentLineIndex >= 2

\* a single hunk of ' ' lines and exactly one '+' line, which the header and
\* the context lines before it place at index p (0-based), 0 <= p <= n
C10_Shape(s, p) ==
  /\ diffLines[1] = HeaderLine(s)
  /\ \A k \in 1..Len(hunkBody) : IsMarked(hunkBody[k], {" ", "+"})
  /\ Cardinality({k \in 1..Len(hunkBody) : IsMarked(hunkBody[k], {"+"})}) = 1
  /\ \E k \in 1..Len(hunkBody) :
        IsMarked(hunkBody[k], {"+"}) /\ p = s - 1 + Consumed(k)
  /\ p \in 0..Len(original)

\* C10: removing the line at index p from the output of a single-addition
\* hunk that lands at index p restores the original content exactly.
C10_RoundTrip ==
  \A s \in 0..(MaxLines + 1), p \in 0..MaxLines :
    (pc = "done" /\ C10_Shape(s, p)) =>
      join(splice(split(applyResult), p, 1, <<>>)) = content

\* an addition in the middle of a buffer, after a context line
C10_Witness ==
  /\ pc = "done"
  /\ C10_Shape(1, 1)
  /\ Len(original) >= 2
  /\ Len(hunkBody) = 2

\* one iteration of the while loop, on the diff line l
LoopStep(l) ==
  /\ pc = "loop"
  /\ i < Len(diffLines)
  /\ diffLines[i + 1] = l
  /\ i' = i + 1

\* arr without its element at the 0-based index k
WithoutIndex(arr, k) == SubSeq(arr, 1, k) \o SubSeq(arr, k + 2, Len(arr))

\* C18: a '-' line removes exactly the element at index pos when
\* 0 <= pos < line count, and leaves the line array as it is for every other
\* pos (past the end, or -1 after a hunk header with oldStart 0); in both
\* cases pos is not advanced.
C18_RemoveInBoundsOnly ==
  [][\A l \in KnownDiffLines :
       (LoopStep(l) /\ IsMarked(l, {"-"})) =>
         /\ currentLineIndex' = currentLineIndex
         /\ lines' = IF 0 <= currentLineIndex /\ currentLineIndex < Len(lines)
                     THEN WithoutIndex(lines, currentLineIndex)
                     ELSE lines]_vars

IsUnchangedLine(l) ==
  /\ ~hunkMatch(l).ok
  /\ ~IsMarked(l, {"+", "-"})

\* C19: a diff line that is neither a hunk header, a '+' line nor a '-'
\* line (a line starting with a space, an empty line, a line starting with
\* any other character) advances pos by exactly 1 and leaves the line array
\* unchanged.
C19_UnchangedLineAdvances ==
  [][\A l \in KnownDiffLines :
       (LoopStep(l) /\ IsUnchangedLine(l)) =>
         /\ currentLineIndex' = currentLineIndex + 1
         /\ lines' = lines]_vars

\* C20: a '---' or '+++' file-header line causes no removal, no insertion
\* and no cursor change in applyUnifiedDiff.
C20_FileHeaderNoChange ==
  [][\A l \in KnownDiffLines :
       (LoopStep(l) /\ IsFileHeaderLine(l)) =>
         /\ currentLineIndex' = currentLineIndex
         /\ lines' = lines]_vars

\* the lines a hunk puts in the place of its old lines
HunkNewLines(ls, h) ==
  FlatSeq([k \in 1..Len(h.body) |->
             IF h.body[k] = "deletion" THEN <<>>
             ELSE IF h.body[k] = "addition" THEN <<<<"x">>>>
             ELSE <<ls[h.oldStart + OldBefore(h.body, k)]>>])

\* the standard application of two hunks: each replaces its old lines, at
\* the line of the original file that its header declares
StandardApplication(ls, p) ==
  SubSeq(ls, 1, p[1].oldStart - 1)
    \o HunkNewLines(ls, p[1])
    \o SubSeq(ls, p[1].oldStart + OldCount(p[1].body), p[2].oldStart - 1)
    \o HunkNewLines(ls, p[2])
    \o SubSeq(ls, p[2].oldStart + OldCount(p[2].body), Len(ls))

IsDiffOf(p) ==
  \/ diff = TwoHunkDiff(original, p)
  \/ diff = TwoHunkDiff(original, p) \o <<NL>>

\* C21: for a well-formed diff of two hunks in ascending, non-overlapping
\* order, applyUnifiedDiff returns the standard application of the diff: the
\* changes of each hunk take effect at the original line its header declares,
\* also when the first hunk changed the number of lines.
C21_StandardApplication ==
  pc = "done" =>
    \A p \in HunkPairs(original) :
      IsDiffOf(p) => lines = StandardApplication(original, p)

\* the same, for the diffs whose first hunk keeps the number of lines
C21_SameCountFirstHunk ==
  pc = "done" =>
    \A p \in HunkPairs(original) :
      (IsDiffOf(p) /\ NewCount(p[1].body) = OldCount(p[1].body))
        => lines = StandardApplication(original, p)

(***************************************************************************)
(* calculateChangeStats and generateChangesSummary                         *)
(***************************************************************************)
calculateChangeStatsNoChanged(orig, corrected) ==
  LET originalLines == split(orig)
      correctedLines == split(corrected)
      linesAdded == Max(0, Len(correctedLines) - Len(originalLines))
      linesRemoved == Max(0, Len(originalLines) - Len(correctedLines))
  IN [linesAdded |-> linesAdded, linesRemoved |-> linesRemoved,
      totalChanges |-> linesAdded + linesRemoved]

calculateChangeStats(orig, corrected) ==
  LET originalLines == split(orig)
      correctedLines == split(corrected)
      linesAdded == Max(0, Len(correctedLines) - Len(originalLines))
      linesRemoved == Max(0, Len(originalLines) - Len(correctedLines))
      minLength == Min(Len(originalLines), Len(correctedLines))
      changedLines ==
        Cardinality({k \in 1..minLength : originalLines[k] # correctedLines[k]})
      totalChanges == changedLines + linesAdded + linesRemoved
  IN [linesAdded |-> linesAdded, linesRemoved |-> linesRemoved,
      totalChanges |-> totalChanges]

\* changes.join(', ') on rendered strings
RECURSIVE joinStrings(_, _)
joinStrings(ss, sep) ==
  IF Len(ss) = 0 THEN ""
  ELSE IF Len(ss) = 1 THEN ss[1]
  ELSE ss[1] \o sep \o joinStrings(Tail(ss), sep)

generateChangesSummaryBothCounts(patches, st) ==
  IF st.totalChanges = 0 THEN "No changes applied"
  ELSE ToString(Len(patches)) \o " patch"
         \o (IF Len(patches) = 1 THEN "" ELSE "es") \o " applied: "
         \o "+" \o ToString(st.linesAdded) \o " lines, -"
         \o ToString(st.linesRemoved) \o " lines"

generateChangesSummary(patches, st) ==
  IF st.totalChanges = 0 THEN "No changes applied"
  ELSE
    LET changes ==
          (IF st.linesAdded > 0
           THEN <<"+" \o ToString(st.linesAdded) \o " lines">> ELSE <<>>)
          \o (IF st.linesRemoved > 0
              THEN <<"-" \o ToString(st.linesRemoved) \o " lines">> ELSE <<>>)
        summary == IF Len(changes) > 0 THEN joinStrings(changes, ", ")
                   ELSE ToString(st.totalChanges) \o " modifications"
    IN ToString(Len(patches)) \o " patch"
         \o (IF Len(patches) = 1 THEN "" ELSE "es") \o " applied: " \o summary

(***************************************************************************)
(* The statistics of one file: an original and a corrected content and the *)
(* patches grouped to the file (none when nothing was applied).            *)
(***************************************************************************)
InitStats ==
  /\ NormOff
  /\ ViewerOff
  /\ ApplyOff
  /\ HookOff
  /\ ReconOff
  /\ statOriginal \in Contents
  /\ statCorrected \in Contents
  /\ statPatches \in {[k \in 1..m |-> "patch"] : m \in 0..MaxPatches}
  /\ (Len(statPatches) = 0 => statCorrected = statOriginal)
  /\ stats = NoStats
  /\ changesSummary = ""
  /\ statPc = "stats"

CalculateChangeStats ==
  /\ statPc = "stats"
  /\ stats' = calculateChangeStats(statOriginal, statCorrected)
  /\ statPc' = "summary"
  /\ UNCHANGED <<statOriginal, statCorrected, statPatches, changesSummary>>
  /\ UNCHANGED notStatVars

GenerateChangesSummary ==
  /\ statPc = "summary"
  /\ changesSummary' = generateChangesSummary(statPatches, stats)
  /\ statPc' = "done"
  /\ UNCHANGED <<statOriginal, statCorrected, statPatches, stats>>
  /\ UNCHANGED notStatVars

NextStats ==
  \/ CalculateChangeStats
  \/ GenerateChangesSummary

SpecStats == InitStats /\ [][NextStats]_vars

(***************************************************************************)
(* Claims about the statistics.                                            *)
(***************************************************************************)
\* the number of lines of a text: one more than its newlines
LineCount(t) == 1 + Cardinality({k \in 1..Len(t) : t[k] = NL})

DifferingLines(a, b) ==
  Cardinality({k \in 1..Min(Len(split(a)), Len(split(b))) :
                 split(a)[k] # split(b)[k]})

\* C7: linesAdded = max(0, c - o), linesRemoved = max(0, o - c), totalChanges
\* = differing indices below min(o, c) + linesAdded + linesRemoved; the two
\* counts are never both positive and totalChanges = 0 exactly when the
\* contents are identical.
C7_ChangeStats ==
  statPc \in {"summary", "done"} =>
    LET o == LineCount(statOriginal)
        c == LineCount(statCorrected)
    IN /\ stats.linesAdded = (IF c > o THEN c - o ELSE 0)
       /\ stats.linesRemoved = (IF o > c THEN o - c ELSE 0)
       /\ stats.totalChanges = DifferingLines(statOriginal, statCorrected)
                                 + stats.linesAdded + stats.linesRemoved
       /\ ~(stats.linesAdded > 0 /\ stats.linesRemoved > 0)
       /\ (stats.totalChanges = 0 <=> statOriginal = statCorrected)

\* a shorter corrected content that also differs in a line it keeps
C7_Witness ==
  /\ statPc = "summary"
  /\ stats.linesRemoved = 2
  /\ stats.totalChanges = 3
\* the summary the statistics and the number of patches call for, when only
\* the positive counts are listed
C8_Counts ==
  IF stats.linesAdded > 0 /\ stats.linesRemoved > 0
  THEN "+" \o ToString(stats.linesAdded) \o " lines, -"
         \o ToString(stats.linesRemoved) \o " lines"
  ELSE IF stats.linesAdded > 0 THEN "+" \o ToString(stats.linesAdded) \o " lines"
  ELSE IF stats.linesRemoved > 0
  THEN "-" \o ToString(stats.linesRemoved) \o " lines"
  ELSE ToString(stats.totalChanges) \o " modifications"

C8_Patches ==
  ToString(Len(statPatches))
    \o (IF Len(statPatches) = 1 THEN " patch" ELSE " patches") \o " applied: "

\* C8 as stated: 'No changes applied' when totalChanges is 0, otherwise
\* '<n> patch(es) applied: +<linesAdded> lines, -<linesRemoved> lines' with
\* both counts shown.
C8_BothCountsShown ==
  statPc = "done" =>
    changesSummary =
      (IF stats.totalChanges = 0 THEN "No changes applied"
       ELSE C8_Patches \o "+" \o ToString(stats.linesAdded) \o " lines, -"
              \o ToString(stats.linesRemoved) \o " lines")

\* C8 amended: 'No changes applied' when totalChanges is 0, otherwise
\* '<n> patch(es) applied: ' ('patch' exactly when n = 1) followed by only
\* the counts that are positive, '+<linesAdded> lines' and/or
\* '-<linesRemoved> lines', or by '<totalChanges> modifications' when the
\* line count did not change.
C8_PositiveCountsShown ==
  statPc = "done" =>
    changesSummary =
      (IF stats.totalChanges = 0 THEN "No changes applied"
       ELSE C8_Patches \o C8_Counts)

\* one patch that only changed a line in place: '1 patch applied: 1
\* modifications'
C8_Witness ==
  /\ statPc = "done"
  /\ Len(statPatches) = 1
  /\ stats.totalChanges = 1
  /\ stats.linesAdded = 0
  /\ stats.linesRemoved = 0
  /\ changesSummary = "1 patch applied: 1 modifications"

(***************************************************************************)
(* The step-execution hook (hooks/useStepExecution.ts) under the page that *)
(* drives it (app/page.tsx, StepCard, DiffViewer, ExportPanel).            *)
(*                                                                         *)
(* calls[k] is the k-th call of executeStepById: its step id, whether its  *)
(* AbortController has been aborted, whether its request has settled, and  *)
(* whether a clear of its step id has run since it was started.            *)
(* A result is named by the call it was returned to, so stepExecutions     *)
(* maps a step id to a call (0: no entry), and so does executionErrors.    *)
(* abortControllers maps a step id to the call whose controller is         *)
(* registered in abortControllersRef (0: none).  acceptedSteps is a Set,   *)
(* kept in insertion order as JavaScript keeps it.  retryAttempts is left  *)
(* out: api.ts executeStep takes no retry callback, so it is never set.    *)
(* A handler runs to its first await in one step, and the continuation of  *)
(* an await runs in one step; React applies the queued functional updates  *)
(* in the order the handlers queued them.  A plan is the ids of its steps  *)
(* and, position by position, their titles.                                *)
(***************************************************************************)
Range(f) == {f[k] : k \in DOMAIN f}

IsDistinct(q) == \A j, k \in DOMAIN q : j # k => q[j] # q[k]

\* the plans the generation service can return: steps with distinct ids
Plans ==
  {[present |-> TRUE, steps |-> q, titles |-> [k \in DOMAIN q |-> "title"]] :
     q \in {r \in SeqsUpTo(StepIds, MaxSteps) : Len(r) >= 1 /\ IsDistinct(r)}}

InitHook ==
  /\ NormOff
  /\ ViewerOff
  /\ ApplyOff
  /\ StatsOff
  /\ ReconOff
  /\ HookOff

\* executeStepById up to its await (lines 40-75)
executeStepById(stepId) ==
  LET existingController == abortControllers[stepId]
      abortedCalls ==
        IF existingController # 0
        THEN [calls EXCEPT ![existingController].aborted = TRUE]
        ELSE calls
      abortController == Len(calls) + 1
      Others(id) == id # stepId
  IN /\ Len(calls) < MaxCalls
     /\ calls' = Append(abortedCalls,
                        [stepId |-> stepId, aborted |-> FALSE,
                         settled |-> FALSE, cleared |-> FALSE])
     /\ abortControllers' = [abortControllers EXCEPT ![stepId] = abortController]
     /\ executingSteps' = executingSteps \cup {stepId}
     /\ stepExecutions' = [stepExecutions EXCEPT ![stepId] = 0]
     /\ acceptedSteps' = SelectSeq(acceptedSteps, Others)
     /\ executionErrors' = [executionErrors EXCEPT ![stepId] = 0]

\* the finally block of executeStepById (lines 114-124)
executeStepByIdFinally(stepId) ==
  /\ executingSteps' = executingSteps \ {stepId}
  /\ abortControllers' = [abortControllers EXCEPT ![stepId] = 0]

\* clearAllExecutions (lines 185-195)
clearAllExecutions ==
  /\ calls' = [k \in DOMAIN calls |->
                 IF k \in Range(abortControllers)
                 THEN [calls[k] EXCEPT !.aborted = TRUE, !.cleared = TRUE]
                 ELSE [calls[k] EXCEPT !.cleared = TRUE]]
  /\ abortControllers' = [id \in KnownStepIds |-> 0]
  /\ stepExecutions' = [id \in KnownStepIds |-> 0]
  /\ executingSteps' = {}
  /\ acceptedSteps' = <<>>
  /\ executionErrors' = [id \in KnownStepIds |-> 0]

\* clearExecution (lines 145-182)
clearExecution(stepId) ==
  LET controller == abortControllers[stepId]
      Others(id) == id # stepId
  IN /\ calls' = [k \in DOMAIN calls |->
                    IF calls[k].stepId # stepId THEN calls[k]
                    ELSE IF k = controller
                    THEN [calls[k] EXCEPT !.aborted = TRUE, !.cleared = TRUE]
                    ELSE [calls[k] EXCEPT !.cleared = TRUE]]
     /\ abortControllers' = [abortControllers EXCEPT ![stepId] = 0]
     /\ stepExecutions' = [stepExecutions EXCEPT ![stepId] = 0]
     /\ executingSteps' = executingSteps \ {stepId}
     /\ acceptedSteps' = SelectSeq(acceptedSteps, Others)
     /\ executionErrors' = [executionErrors EXCEPT ![stepId] = 0]

\* handleGeneratePlan: the intent form is shown while there is no plan
GeneratePlan ==
  /\ ~currentPlan.present
  /\ clearAllExecutions
  /\ currentPlan' \in Plans
  /\ UNCHANGED notHookVars

\* handleExecuteStep behind the Run Step button, disabled while executing
RunStep(stepId) ==
  /\ currentPlan.present
  /\ stepId \in Range(currentPlan.steps)
  /\ stepId \notin executingSteps
  /\ executeStepById(stepId)
  /\ UNCHANGED currentPlan
  /\ UNCHANGED notHookVars

\* handleRegenerateStep behind the DiffViewer, shown with a result
RegenerateStep(stepId) ==
  /\ currentPlan.present
  /\ stepId \in Range(currentPlan.steps)
  /\ stepExecutions[stepId] # 0
  /\ executeStepById(stepId)
  /\ UNCHANGED currentPlan
  /\ UNCHANGED notHookVars

\* the request of call k resolves: lines 82-93, then the finally block
Resolve(k) ==
  /\ k \in DOMAIN calls
  /\ ~calls[k].settled
  /\ calls' = [calls EXCEPT ![k].settled = TRUE]
  /\ stepExecutions' =
       IF calls[k].aborted
       THEN stepExecutions
       ELSE [stepExecutions EXCEPT ![calls[k].stepId] = k]
  /\ executeStepByIdFinally(calls[k].stepId)
  /\ UNCHANGED <<currentPlan, acceptedSteps, executionErrors>>
  /\ UNCHANGED notHookVars

\* the request of call k rejects: lines 95-112, then the finally block
Reject(k) ==
  /\ k \in DOMAIN calls
  /\ ~calls[k].settled
  /\ calls' = [calls EXCEPT ![k].settled = TRUE]
  /\ executionErrors' =
       IF calls[k].aborted
       THEN executionErrors
       ELSE [executionErrors EXCEPT ![calls[k].stepId] = k]
  /\ executeStepByIdFinally(calls[k].stepId)
  /\ UNCHANGED <<currentPlan, acceptedSteps, stepExecutions>>
  /\ UNCHANGED notHookVars

\* handleAcceptPatch behind the DiffViewer, shown with a result
AcceptPatch(stepId) ==
  /\ currentPlan.present
  /\ stepId \in Range(currentPlan.steps)
  /\ stepExecutions[stepId] # 0
  /\ acceptedSteps' =
       IF stepId \in Range(acceptedSteps)
       THEN acceptedSteps
       ELSE Append(acceptedSteps, stepId)
  /\ UNCHANGED <<currentPlan, stepExecutions, executingSteps,
                 executionErrors, abortControllers, calls>>
  /\ UNCHANGED notHookVars

\* handleStartOver
StartOver ==
  /\ currentPlan.present
  /\ currentPlan' = NoPlan
  /\ clearAllExecutions
  /\ UNCHANGED notHookVars

NextHook ==
  \/ GeneratePlan
  \/ \E stepId \in StepIds : RunStep(stepId)
  \/ \E stepId \in StepIds : RegenerateStep(stepId)
  \/ \E k \in 1..MaxCalls : Resolve(k)
  \/ \E k \in 1..MaxCalls : Reject(k)
  \/ \E stepId \in StepIds : AcceptPatch(stepId)
  \/ StartOver

SpecHook == InitHook /\ [][NextHook]_vars

\* the hook with clearExecution, which it returns and the page never calls,
\* called for a step of the plan
ClearExecution(stepId) ==
  /\ currentPlan.present
  /\ stepId \in Range(currentPlan.steps)
  /\ clearExecution(stepId)
  /\ UNCHANGED currentPlan
  /\ UNCHANGED notHookVars

NextHookClear ==
  \/ NextHook
  \/ \E stepId \in StepIds : ClearExecution(stepId)

SpecHookClear == InitHook /\ [][NextHookClear]_vars

\* ExportPanel: acceptedStepsData in the order of the acceptances
acceptedStepsDataInAcceptanceOrder(plan, results, accepted) ==
  LET Kept(id) == id \in Range(plan.steps) /\ results[id] # 0
      kept == SelectSeq(accepted, Kept)
  IN [k \in DOMAIN kept |-> [step |-> kept[k], execution |-> results[kept[k]]]]

\* ExportPanel: acceptedStepsData (lines 37-43)
acceptedStepsData(plan, results, accepted) ==
  LET Kept(id) == results[id] # 0 /\ id \in Range(accepted)
      kept == SelectSeq(plan.steps, Kept)
  IN [k \in DOMAIN kept |-> [step |-> kept[k], execution |-> results[kept[k]]]]

\* ExportPanel: the executions handed to reconstructFiles (lines 49-50)
acceptedExecutions ==
  LET data == acceptedStepsData(currentPlan, stepExecutions, acceptedSteps)
  IN [k \in DOMAIN data |-> data[k].execution]

(***************************************************************************)
(* Claims on the hook and the export panel.                                *)
(***************************************************************************)
\* the most recently started call of a step id (0: none)
LastStarted(stepId) ==
  LET started == {k \in DOMAIN calls : calls[k].stepId = stepId}
  IN IF started = {} THEN 0
     ELSE CHOOSE k \in started : \A j \in started : j <= k

\* C1: last-started wins: once a later execution of a step id has been
\* started, the result of an earlier-started execution of that id is never
\* in stepExecutions, so the stored result of a step id, if any, is the one
\* returned to the most recently started execution of that id.
C1_LastStartedWins ==
  \A stepId \in StepIds :
    stepExecutions[stepId] # 0 => stepExecutions[stepId] = LastStarted(stepId)

PlanIndex(stepId) ==
  CHOOSE k \in DOMAIN currentPlan.steps : currentPlan.steps[k] = stepId

AcceptIndex(stepId) ==
  CHOOSE k \in DOMAIN acceptedSteps : acceptedSteps[k] = stepId

handedOver == acceptedStepsData(currentPlan, stepExecutions, acceptedSteps)

StepsAt(plan, idx) ==
  [plan EXCEPT !.steps = [k \in DOMAIN idx |-> plan.steps[idx[k]]],
               !.titles = [k \in DOMAIN idx |-> plan.titles[idx[k]]]]

Positions(plan) == [k \in DOMAIN plan.steps |-> k]

\* handleStepEdit (lines 70-79), for StepCard's { ...step, title }
stepEdited(plan, stepId, title) ==
  [plan EXCEPT !.titles = [k \in DOMAIN plan.steps |->
                             IF plan.steps[k] = stepId THEN title
                             ELSE plan.titles[k]]]

\* handleStepDelete (lines 82-89)
stepDeleted(plan, stepId) ==
  LET Kept(k) == plan.steps[k] # stepId
  IN StepsAt(plan, SelectSeq(Positions(plan), Kept))

\* handleAddStep (lines 92-108)
stepAdded(plan) ==
  [plan EXCEPT !.steps = Append(plan.steps, newStepId(plan.steps)),
               !.titles = Append(plan.titles, "New Step")]

\* plan.steps.findIndex(step => step.id === id), 1-based, 0 for -1
findIndex(steps, id) ==
  IF id \in Range(steps)
  THEN CHOOSE k \in DOMAIN steps :
         steps[k] = id /\ \A j \in 1..(k - 1) : steps[j] # id
  ELSE 0

\* arrayMove of @dnd-kit/sortable on positions: the element at from is
\* taken out and put in again at to
arrayMove(idx, from, to) ==
  LET NotFrom(k) == k # from
      rest == SelectSeq(idx, NotFrom)
  IN SubSeq(rest, 1, to - 1) \o <<from>> \o SubSeq(rest, to, Len(rest))

\* handleDragEnd (lines 111-128)
stepsReordered(plan, active, over) ==
  LET oldIndex == findIndex(plan.steps, active)
      newIndex == findIndex(plan.steps, over)
  IN IF active # over /\ oldIndex # 0 /\ newIndex # 0
     THEN StepsAt(plan, arrayMove(Positions(plan), oldIndex, newIndex))
     ELSE plan

\* page.tsx handlePlanChange: setCurrentPlan(updatedPlan)
PlanChange(updatedPlan) ==
  /\ currentPlan.present
  /\ currentPlan' = updatedPlan
  /\ UNCHANGED <<stepExecutions, executingSteps, acceptedSteps,
                 executionErrors, abortControllers, calls>>
  /\ UNCHANGED notHookVars

EditStep(stepId) ==
  /\ stepId \in Range(currentPlan.steps)
  /\ PlanChange(stepEdited(currentPlan, stepId, "edited"))

DeleteStep(stepId) ==
  /\ stepId \in Range(currentPlan.steps)
  /\ PlanChange(stepDeleted(currentPlan, stepId))

AddStep ==
  /\ Len(currentPlan.steps) < MaxSteps
  /\ PlanChange(stepAdded(currentPlan))

DragEnd(active, over) ==
  /\ active \in Range(currentPlan.steps)
  /\ over \in Range(currentPlan.steps)
  /\ PlanChange(stepsReordered(currentPlan, active, over))

NextPlan ==
  \/ GeneratePlan
  \/ \E stepId \in KnownStepIds : RunStep(stepId)
  \/ \E stepId \in KnownStepIds : RegenerateStep(stepId)
  \/ \E k \in 1..MaxCalls : Resolve(k)
  \/ \E k \in 1..MaxCalls : Reject(k)
  \/ \E stepId \in KnownStepIds : AcceptPatch(stepId)
  \/ StartOver
  \/ \E stepId \in KnownStepIds : EditStep(stepId)
  \/ \E stepId \in KnownStepIds : DeleteStep(stepId)
  \/ AddStep
  \/ \E active, over \in KnownStepIds : DragEnd(active, over)

SpecPlan == InitHook /\ [][NextPlan]_vars

\* C28: after any sequence of add-step, delete-step, edit-step and
\* drag-reorder operations on a plan with pairwise distinct step ids, the
\* step ids of the plan are pairwise distinct.
C28_StepIdsDistinct == IsDistinct(currentPlan.steps)

\* C29: every id in acceptedSteps and every key of stepExecutions is the id
\* of a step of the current plan, and acceptedSteps.size equals
\* plan.steps.length ('All Steps Complete') only when every step of the plan
\* is accepted.
C29_StateOfPlanSteps ==
  /\ \A id \in Range(acceptedSteps) : id \in Range(currentPlan.steps)
  /\ \A id \in KnownStepIds :
       stepExecutions[id] # 0 => id \in Range(currentPlan.steps)
  /\ (currentPlan.present /\ Len(currentPlan.steps) > 0
        /\ Len(acceptedSteps) = Len(currentPlan.steps))
       => \A id \in Range(currentPlan.steps) : id \in Range(acceptedSteps)

\* its last conjunct alone, which holds while the plan is not edited
C29_AllStepsComplete ==
  (currentPlan.present /\ Len(currentPlan.steps) > 0
     /\ Len(acceptedSteps) = Len(currentPlan.steps))
    => \A id \in Range(currentPlan.steps) : id \in Range(acceptedSteps)

\* C24: from acceptPatch(stepId) on, the execution stored under stepId does
\* not change for as long as stepId stays in acceptedSteps.
C24_AcceptedExecutionKept ==
  [][\A stepId \in StepIds :
       (stepId \in Range(acceptedSteps) /\ stepId \in Range(acceptedSteps'))
         => stepExecutions'[stepId] = stepExecutions[stepId]]_vars

\* C25: while the most recently started execution of a step id has neither
\* completed nor been cleared, the id is in executingSteps and the
\* execution's AbortController is the one registered for the id.
C25_LastStartedRegistered ==
  \A stepId \in StepIds :
    LET k == LastStarted(stepId)
    IN (k # 0 /\ ~calls[k].settled /\ ~calls[k].cleared) =>
         /\ stepId \in executingSteps
         /\ abortControllers[stepId] = k

\* C26: after clearExecution(stepId) and after clearAllExecutions(), no
\* result and no error of an execution started before the clear is written
\* to stepExecutions or executionErrors.
C26_NothingWrittenAfterClear ==
  \A stepId \in StepIds :
    /\ stepExecutions[stepId] # 0 => ~calls[stepExecutions[stepId]].cleared
    /\ executionErrors[stepId] # 0 => ~calls[executionErrors[stepId]].cleared

\* what holds of the most recently started execution of a step id: its
\* result is stored, its error is stored, it was cancelled
Outcomes(stepId) ==
  LET k == LastStarted(stepId)
  IN {o \in {"result", "error", "cancelled"} :
        \/ o = "result" /\ stepExecutions[stepId] = k
        \/ o = "error" /\ executionErrors[stepId] = k
        \/ o = "cancelled" /\ calls[k].aborted}

\* C27, its safety half: when a step id leaves executingSteps, exactly one
\* of these holds for the most recently started execution of the id: its
\* result is in stepExecutions, its error is in executionErrors, or it was
\* cancelled.
C27_RemovedWithOneOutcome ==
  [][\A stepId \in StepIds :
       (stepId \in executingSteps /\ stepId \notin executingSteps')
         => Cardinality(Outcomes(stepId)') = 1]_vars

\* every request eventually resolves or rejects
SpecHookFair ==
  SpecHook /\ \A k \in 1..MaxCalls : WF_vars(Resolve(k) \/ Reject(k))

\* C27, its liveness half: a step id in executingSteps eventually leaves it
C27_EventuallyRemoved ==
  \A stepId \in StepIds :
    (stepId \in executingSteps) ~> (stepId \notin executingSteps)

(***************************************************************************)
(* parseCodeContext: the three patterns of the splitter and its fallback.  *)
(* The language of a file is left out: no claim reads it.                  *)
(***************************************************************************)
\* String.prototype.trim
trim(t) ==
  LET kept == {k \in DOMAIN t : t[k] \notin WhiteSpace}
  IN IF kept = {} THEN <<>>
     ELSE SubSeq(t, CHOOSE a \in kept : \A b \in kept : a <= b,
                    CHOOSE a \in kept : \A b \in kept : a >= b)

LowerCase ==
  <<"a", "b", "c", "d", "e", "f", "g", "h", "i", "j", "k", "l", "m",
    "n", "o", "p", "q", "r", "s", "t", "u", "v", "w", "x", "y", "z">>
UpperCase ==
  <<"A", "B", "C", "D", "E", "F", "G", "H", "I", "J", "K", "L", "M",
    "N", "O", "P", "Q", "R", "S", "T", "U", "V", "W", "X", "Y", "Z">>

\* the characters the i flag lets a literal character match
CaseVariants(ch) ==
  {ch} \cup {LowerCase[k] : k \in {j \in 1..26 : UpperCase[j] = ch}}
       \cup {UpperCase[k] : k \in {j \in 1..26 : LowerCase[j] = ch}}

RxLitNoCase(s) == RxCat([k \in 1..Len(s) |-> RxIn(CaseVariants(s[k]))])

\* [\s\S] and [^\n]
RxAny == RxNotIn({})
RxNotNL == RxNotIn({NL})

\* the matches of a g-flagged pattern, left to right (matchAll); an empty
\* match moves the search one character on
RECURSIVE RxMatchAll(_, _, _)
RxMatchAll(re, txt, from) ==
  LET m == RxSearch(re, txt, from)
  IN IF ~m.ok THEN <<>>
     ELSE <<m>> \o RxMatchAll(re, txt,
                              IF m.end = m.start THEN m.end + 1 ELSE m.end)

\* txt.replace(re, '') for a g-flagged pattern, from index from on
RECURSIVE RxRemoveAll(_, _, _)
RxRemoveAll(re, txt, from) ==
  LET m == RxSearch(re, txt, from)
  IN IF ~m.ok THEN SubSeq(txt, from, Len(txt))
     ELSE IF m.end > m.start
     THEN SubSeq(txt, from, m.start - 1) \o RxRemoveAll(re, txt, m.end)
     ELSE SubSeq(txt, from, Min(m.start, Len(txt)))
          \o RxRemoveAll(re, txt, m.start + 1)

\* /(?:^|\n)(?:File:|Filename:|\*\*File:\*\*)\s*([^\n]+)\n```(\w+)?\n([\s\S]*?)\n```/gi
markdownPattern ==
  RxCat(<<RxAlt(<<RxBol(FALSE), RxChr(NL)>>),
          RxAlt(<<RxLitNoCase(<<"F", "i", "l", "e", ":">>),
                  RxLitNoCase(<<"F", "i", "l", "e", "n", "a", "m", "e", ":">>),
                  RxLitNoCase(<<"*", "*", "F", "i", "l", "e", ":", "*", "*">>)>>),
          RxStar(RxIn(WhiteSpace)),
          RxCap(1, RxPlus(RxNotNL)),
          RxChr(NL), RxLit(Fence),
          RxOpt(RxCap(2, RxPlus(RxIn(WordChars)))),
          RxChr(NL),
          RxCap(3, RxStarLazy(RxAny)),
          RxChr(NL), RxLit(Fence)>>)

\* (?:\/\/|#|<!--)
commentMarker ==
  RxAlt(<<RxLit(<<"/", "/">>), RxChr("#"), RxLit(<<"<", "!", "-", "-">>)>>)

\* [^\n]+?\.[\w]+
dottedName ==
  RxCat(<<RxPlusLazy(RxNotNL), RxChr("."), RxPlus(RxIn(WordChars))>>)

\* /(?:^|\n)(?:\/\/|#|<!--)\s*([^\n]+?\.[\w]+)(?:\s*-->)?\n([\s\S]*?)
\*  (?=\n(?:\/\/|#|<!--)[^\n]+?\.[\w]+|\n*$)/gi
commentPattern ==
  RxCat(<<RxAlt(<<RxBol(FALSE), RxChr(NL)>>),
          commentMarker,
          RxStar(RxIn(WhiteSpace)),
          RxCap(1, dottedName),
          RxOpt(RxCat(<<RxStar(RxIn(WhiteSpace)), RxLit(<<"-", "-", ">">>)>>)),
          RxChr(NL),
          RxCap(2, RxStarLazy(RxAny)),
          RxLook(RxAlt(<<RxCat(<<RxChr(NL), commentMarker, dottedName>>),
                         RxCat(<<RxStar(RxChr(NL)), RxEol(FALSE)>>)>>))>>)

\* /```(\w+)?\n([\s\S]*?)\n```/g
codeBlockPattern ==
  RxCat(<<RxLit(Fence),
          RxOpt(RxCap(1, RxPlus(RxIn(WordChars)))),
          RxChr(NL),
          RxCap(2, RxStarLazy(RxAny)),
          RxChr(NL), RxLit(Fence)>>)

\* /```\w*\n?/g
codeBlockMarker ==
  RxCat(<<RxLit(Fence), RxStar(RxIn(WordChars)), RxOpt(RxChr(NL))>>)

\* the own properties of extensionMap, as <<language, extension>> pairs
extensionMap ==
  {<<<<"j", "a", "v", "a", "s", "c", "r", "i", "p", "t">>, <<"j", "s">>>>,
   <<<<"t", "y", "p", "e", "s", "c", "r", "i", "p", "t">>, <<"t", "s">>>>,
   <<<<"p", "y", "t", "h", "o", "n">>, <<"p", "y">>>>,
   <<<<"j", "a", "v", "a">>, <<"j", "a", "v", "a">>>>,
   <<<<"c", "p", "p">>, <<"c", "p", "p">>>>,
   <<<<"c">>, <<"c">>>>,
   <<<<"c", "s", "h", "a", "r", "p">>, <<"c", "s">>>>,
   <<<<"p", "h", "p">>, <<"p", "h", "p">>>>,
   <<<<"r", "u", "b", "y">>, <<"r", "b">>>>,
   <<<<"g", "o">>, <<"g", "o">>>>,
   <<<<"r", "u", "s", "t">>, <<"r", "s">>>>,
   <<<<"s", "w", "i", "f", "t">>, <<"s", "w", "i", "f", "t">>>>,
   <<<<"k", "o", "t", "l", "i", "n">>, <<"k", "t">>>>,
   <<<<"s", "c", "a", "l", "a">>, <<"s", "c", "a", "l", "a">>>>,
   <<<<"h", "t", "m", "l">>, <<"h", "t", "m", "l">>>>,
   <<<<"c", "s", "s">>, <<"c", "s", "s">>>>,
   <<<<"s", "c", "s", "s">>, <<"s", "c", "s", "s">>>>,
   <<<<"j", "s", "o", "n">>, <<"j", "s", "o", "n">>>>,
   <<<<"x", "m", "l">>, <<"x", "m", "l">>>>,
   <<<<"y", "a", "m", "l">>, <<"y", "a", "m", "l">>>>,
   <<<<"m", "a", "r", "k", "d", "o", "w", "n">>, <<"m", "d">>>>,
   <<<<"s", "q", "l">>, <<"s", "q", "l">>>>,
   <<<<"b", "a", "s", "h">>, <<"s", "h">>>>}

Txt == <<"t", "x", "t">>

\* getExtensionFromLanguage, for a language that is not the name of a
\* property that every object inherits
getExtensionFromLanguage(language) ==
  IF \E e \in extensionMap : e[1] = language
  THEN (CHOOSE e \in extensionMap : e[1] = language)[2]
  ELSE Txt

\* the decimal digits of a natural number
RECURSIVE NumberText(_)
NumberText(n) ==
  IF n < 10 THEN <<DigitChar(n)>>
  ELSE NumberText(n \div 10) \o <<DigitChar(n % 10)>>

MainTxt == <<"m", "a", "i", "n", ".", "t", "x", "t">>

\* lines 41 and 53: isSingleFile: files.length === 1
isSingleFileAlways(files) == TRUE

isSingleFile(files) == Len(files) = 1

\* lines 70-82: the whole input, without its fence markers, as main.txt
noFile(ctx) == [files |-> <<>>, isSingleFile |-> TRUE]

singleFile(ctx) ==
  LET cleanedContent == trim(RxRemoveAll(codeBlockMarker, ctx, 1))
  IN [files |-> <<[filename |-> MainTxt, content |-> cleanedContent]>>,
      isSingleFile |-> TRUE]

parseCodeContext(ctx) ==
  LET markdownMatches == RxMatchAll(markdownPattern, ctx, 1)
      commentMatches == RxMatchAll(commentPattern, ctx, 1)
      codeBlocks == RxMatchAll(codeBlockPattern, ctx, 1)
  IN IF trim(ctx) = <<>> THEN [files |-> <<>>, isSingleFile |-> TRUE]
     ELSE IF Len(markdownMatches) > 0
     THEN [files |-> [k \in DOMAIN markdownMatches |->
                        [filename |-> trim(RxGroup(ctx, markdownMatches[k], 1)),
                         content |-> trim(RxGroup(ctx, markdownMatches[k], 3))]],
           isSingleFile |-> isSingleFile(markdownMatches)]
     ELSE IF Len(commentMatches) > 0
     THEN [files |-> [k \in DOMAIN commentMatches |->
                        [filename |-> trim(RxGroup(ctx, commentMatches[k], 1)),
                         content |-> trim(RxGroup(ctx, commentMatches[k], 2))]],
           isSingleFile |-> isSingleFile(commentMatches)]
     ELSE IF Len(codeBlocks) > 1
     THEN [files |-> [k \in DOMAIN codeBlocks |->
                        [filename |->
                           <<"f", "i", "l", "e">> \o NumberText(k) \o <<".">>
                           \o getExtensionFromLanguage(
                                IF RxHas(codeBlocks[k], 1)
                                THEN RxGroup(ctx, codeBlocks[k], 1)
                                ELSE Txt),
                         content |-> trim(RxGroup(ctx, codeBlocks[k], 2))]],
           isSingleFile |-> FALSE]
     ELSE singleFile(ctx)

\* parseCodeContext, computed once for each code context in play
ParsedCodeContexts == [ctx \in CodeContexts |-> parseCodeContext(ctx)]

parsedContextOf(ctx) == ParsedCodeContexts[ctx]

(***************************************************************************)
(* determineTargetFile, groupPatchesByFile, applyPatchesToContent and      *)
(* reconstructFiles.                                                       *)
(***************************************************************************)
\* /^(?:\+\+\+|---)\s+(.+)$/m
fileHeaderPattern ==
  RxCat(<<RxBol(TRUE),
          RxAlt(<<RxLit(<<"+", "+", "+">>), RxLit(<<"-", "-", "-">>)>>),
          RxPlus(RxIn(WhiteSpace)),
          RxCap(1, RxPlus(RxNotIn({NL, "\r"}))),
          RxEol(TRUE)>>)

\* patch.match(fileHeaderPattern), computed once for each diff in play
FileHeaderMatches ==
  [patch \in ReconDiffs |-> RxSearch(fileHeaderPattern, patch, 1)]

fileHeaderMatch(patch) == FileHeaderMatches[patch]

\* filename.replace(/^[ab]\//, '')
removePrefix(filename) ==
  IF Len(filename) >= 2 /\ filename[1] \in {"a", "b"} /\ filename[2] = "/"
  THEN SubSeq(filename, 3, Len(filename))
  ELSE filename

ModifiedFileTxt ==
  <<"m", "o", "d", "i", "f", "i", "e", "d", "_", "f", "i", "l", "e", ".",
    "t", "x", "t">>

determineTargetFileFromContext(execution, parsed) ==
  IF Len(parsed.files) > 0
  THEN parsed.files[1].filename
  ELSE ModifiedFileTxt

determineTargetFile(execution, parsed) ==
  LET patch == execution.diff
  IN IF fileHeaderMatch(patch).ok
     THEN removePrefix(RxGroup(patch, fileHeaderMatch(patch), 1))
     ELSE IF parsed.isSingleFile /\ Len(parsed.files) = 1
     THEN parsed.files[1].filename
     ELSE IF Len(parsed.files) > 0
     THEN parsed.files[1].filename
     ELSE ModifiedFileTxt

\* the names of the properties that an object literal inherits from
\* Object.prototype: patchesByFile[name] is then a function (or the
\* prototype itself), which is truthy, has no push and is not iterable
ObjectPrototypeKeys ==
  {<<"c", "o", "n", "s", "t", "r", "u", "c", "t", "o", "r">>,
   <<"h", "a", "s", "O", "w", "n", "P", "r", "o", "p", "e", "r", "t", "y">>,
   <<"i", "s", "P", "r", "o", "t", "o", "t", "y", "p", "e", "O", "f">>,
   <<"p", "r", "o", "p", "e", "r", "t", "y", "I", "s", "E", "n", "u", "m",
      "e", "r", "a", "b", "l", "e">>,
   <<"t", "o", "L", "o", "c", "a", "l", "e", "S", "t", "r", "i", "n", "g">>,
   <<"t", "o", "S", "t", "r", "i", "n", "g">>,
   <<"v", "a", "l", "u", "e", "O", "f">>,
   <<"_", "_", "p", "r", "o", "t", "o", "_", "_">>,
   <<"_", "_", "d", "e", "f", "i", "n", "e", "G", "e", "t", "t", "e", "r",
      "_", "_">>,
   <<"_", "_", "d", "e", "f", "i", "n", "e", "S", "e", "t", "t", "e", "r",
      "_", "_">>,
   <<"_", "_", "l", "o", "o", "k", "u", "p", "G", "e", "t", "t", "e", "r",
      "_", "_">>,
   <<"_", "_", "l", "o", "o", "k", "u", "p", "S", "e", "t", "t", "e", "r",
      "_", "_">>}

\* patchesByFile is [threw, own]: whether a TypeError was thrown, and the
\* own properties of the object, a function from filenames to arrays.
\* One iteration of the forEach of groupPatchesByFile (lines 128-136):
groupPatchInFront(byFile, execution, parsed) ==
  LET targetFile == determineTargetFile(execution, parsed)
  IN IF execution.diff = <<>> THEN byFile
     ELSE IF targetFile \in DOMAIN byFile.own
     THEN [byFile EXCEPT !.own[targetFile] = <<execution>> \o @]
     ELSE IF targetFile \in ObjectPrototypeKeys
     THEN [byFile EXCEPT !.threw = TRUE]
     ELSE [byFile EXCEPT !.own = @ @@ (targetFile :> <<execution>>)]

groupPatch(byFile, execution, parsed) ==
  LET targetFile == determineTargetFile(execution, parsed)
  IN IF execution.diff = <<>> THEN byFile
     ELSE IF targetFile \in DOMAIN byFile.own
     THEN [byFile EXCEPT !.own[targetFile] = Append(@, execution)]
     ELSE IF targetFile \in ObjectPrototypeKeys
     THEN [byFile EXCEPT !.threw = TRUE]
     ELSE [byFile EXCEPT !.own = @ @@ (targetFile :> <<execution>>)]

\* one iteration of the for loop of applyPatchesToContent (lines 174-182).
\* split, match, parseInt, splice, substring and join are total on strings,
\* so nothing in the try block throws and the catch block is not a branch.
applyPatch(cur, patch) ==
  IF patch.diff = <<>> THEN cur ELSE applyUnifiedDiff(cur, patch.diff)

Thrown == [threw |-> TRUE, files |-> <<>>]

\* one element of the array reconstructFiles returns (lines 105-114)
ReconstructedFile(file, patches, correctedContent) ==
  LET st == calculateChangeStats(file.content, correctedContent)
  IN [filename |-> file.filename,
      originalContent |-> file.content,
      correctedContent |-> correctedContent,
      changesSummary |-> generateChangesSummary(patches, st),
      linesAdded |-> st.linesAdded,
      linesRemoved |-> st.linesRemoved,
      totalChanges |-> st.totalChanges]

InitRecon ==
  /\ NormOff
  /\ ViewerOff
  /\ ApplyOff
  /\ StatsOff
  /\ HookOff
  /\ codeContext \in CodeContexts
  /\ executions \in SeqsUpTo(ReconExecutions, MaxPatches)
  /\ ReconLocalsUnset
  /\ reconPc = "parse"
  /\ earlierCalls = <<>>

\* lines 92-99 and 125: split the context, return [] when it has no file,
\* enter groupPatchesByFile otherwise
ParseCodeContext ==
  /\ reconPc = "parse"
  /\ parsedContext' = parsedContextOf(codeContext)
  /\ reconPc' = IF Len(parsedContext'.files) = 0 THEN "done"
                ELSE IF Len(executions) = 0 THEN "file"
                ELSE "group"
  /\ patchesByFile' = newPatchesByFile
  /\ UNCHANGED <<earlierCalls, codeContext, executions, executionIndex,
                 fileIndex, filePatches, currentContent, patchIndex,
                 reconstructedFiles>>
  /\ UNCHANGED notReconVars

\* groupPatchesByFile: one execution
GroupPatch ==
  /\ reconPc = "group"
  /\ patchesByFile' =
       groupPatch(patchesByFile, executions[executionIndex + 1], parsedContext)
  /\ executionIndex' = executionIndex + 1
  /\ reconPc' = IF patchesByFile'.threw THEN "done"
                ELSE IF executionIndex' = Len(executions) THEN "file"
                ELSE "group"
  /\ reconstructedFiles' =
       IF patchesByFile'.threw THEN Thrown ELSE reconstructedFiles
  /\ UNCHANGED <<earlierCalls, codeContext, executions, parsedContext, fileIndex,
                 filePatches, currentContent, patchIndex>>
  /\ UNCHANGED notReconVars

\* the map callback for one file, line 102, and the first lines of
\* applyPatchesToContent: the for...of over an inherited property throws
StartFile ==
  LET file == parsedContext.files[fileIndex]
  IN /\ reconPc = "file"
     /\ IF file.filename \in DOMAIN patchesByFile.own
        THEN /\ filePatches' = patchesByFile.own[file.filename]
             /\ reconPc' = "patch"
             /\ UNCHANGED reconstructedFiles
        ELSE IF file.filename \in ObjectPrototypeKeys
        THEN /\ reconstructedFiles' = Thrown
             /\ reconPc' = "done"
             /\ UNCHANGED filePatches
        ELSE /\ filePatches' = <<>>
             /\ reconPc' = "patch"
             /\ UNCHANGED reconstructedFiles
     /\ currentContent' = file.content
     /\ patchIndex' = 0
     /\ UNCHANGED <<earlierCalls, codeContext, executions, parsedContext, patchesByFile,
                    executionIndex, fileIndex>>
     /\ UNCHANGED notReconVars

\* applyPatchesToContent: one patch
ApplyPatch ==
  /\ reconPc = "patch"
  /\ patchIndex < Len(filePatches)
  /\ currentContent' = applyPatch(currentContent, filePatches[patchIndex + 1])
  /\ patchIndex' = patchIndex + 1
  /\ UNCHANGED <<earlierCalls, codeContext, executions, parsedContext, patchesByFile,
                 executionIndex, fileIndex, filePatches, reconstructedFiles,
                 reconPc>>
  /\ UNCHANGED notReconVars

\* the map callback for one file, lines 103-114
FinishFile ==
  /\ reconPc = "patch"
  /\ patchIndex = Len(filePatches)
  /\ reconstructedFiles' =
       [reconstructedFiles EXCEPT
          !.files = Append(@, ReconstructedFile(parsedContext.files[fileIndex],
                                                filePatches, currentContent))]
  /\ IF fileIndex = Len(parsedContext.files)
     THEN reconPc' = "done" /\ UNCHANGED fileIndex
     ELSE reconPc' = "file" /\ fileIndex' = fileIndex + 1
  /\ UNCHANGED <<earlierCalls, codeContext, executions, parsedContext, patchesByFile,
                 executionIndex, filePatches, currentContent, patchIndex>>
  /\ UNCHANGED notReconVars

\* the caller calls reconstructFiles once more with the same arguments: the
\* locals of the call that ended are gone, the call starts at line 92
CallAgain ==
  /\ reconPc = "done"
  /\ Len(earlierCalls) < ReconCalls - 1
  /\ earlierCalls' = Append(earlierCalls,
                            [codeContext |-> codeContext,
                             executions |-> executions,
                             result |-> reconstructedFiles])
  /\ parsedContext' = [files |-> <<>>, isSingleFile |-> TRUE]
  /\ executionIndex' = 0
  /\ fileIndex' = 1
  /\ filePatches' = <<>>
  /\ currentContent' = <<>>
  /\ patchIndex' = 0
  /\ reconstructedFiles' = NotRun
  /\ reconPc' = "parse"
  /\ UNCHANGED <<codeContext, executions, patchesByFile>>
  /\ UNCHANGED notReconVars

NextRecon ==
  \/ ParseCodeContext
  \/ GroupPatch
  \/ StartFile
  \/ ApplyPatch
  \/ FinishFile
  \/ CallAgain

SpecRecon == InitRecon /\ [][NextRecon]_vars

(***************************************************************************)
(* Claims on the orchestrator.                                             *)
(***************************************************************************)
Returned == reconPc = "done" /\ ~reconstructedFiles.threw

\* the executions with a diff that resolve to filename, in the order of
\* acceptedExecutions
PatchGroup(filename) ==
  LET InGroup(execution) ==
        /\ execution.diff # <<>>
        /\ determineTargetFile(execution, parsedContextOf(codeContext))
             = filename
  IN SelectSeq(executions, InGroup)

RECURSIVE LeftFold(_, _)
LeftFold(c, group) ==
  IF Len(group) = 0 THEN c
  ELSE LeftFold(applyUnifiedDiff(c, Head(group).diff), Tail(group))

\* C3: in the array reconstructFiles returns, there is one record for each
\* file of the split, in order, and its correctedContent is the left fold
\* of the single-patch applier over the file's patch group, taken in the
\* order of acceptedExecutions and starting from the file's original
\* content; an execution without a diff is in no group.
C3_LeftFold ==
  Returned =>
    LET files == parsedContextOf(codeContext).files
        rfs == reconstructedFiles.files
    IN /\ Len(rfs) = Len(files)
       /\ \A k \in DOMAIN rfs :
            /\ rfs[k].filename = files[k].filename
            /\ rfs[k].originalContent = files[k].content
            /\ rfs[k].correctedContent =
                 LeftFold(files[k].content, PatchGroup(files[k].filename))

\* remove the first line, then insert x at the top: the other order gives
\* x, a, b
C3_Witness ==
  /\ Returned
  /\ codeContext = PlainContext
  /\ executions = <<[diff |-> DiffRemove], [diff |-> <<>>], [diff |-> DiffInsert]>>
  /\ reconstructedFiles.files[1].correctedContent = join(<<<<"x">>, <<"b">>>>)

HasLine(d, l) == \E k \in DOMAIN split(d) : split(d)[k] = l

\* the first line of d is l, or no line before l is a line that starts with
\* +++ or ---
IsFirstHeader(d, l) ==
  \E k \in DOMAIN split(d) :
    /\ split(d)[k] = l
    /\ \A j \in 1..(k - 1) :
         /\ SubSeq(split(d)[j], 1, 3) # <<"+", "+", "+">>
         /\ SubSeq(split(d)[j], 1, 3) # <<"-", "-", "-">>

\* C5 as claimed: a diff with the line "+++ b/foo.ts" resolves to foo.ts
\* for every split result, whatever its other lines.
C5_PlusLineWins ==
  reconPc = "done" =>
    \A k \in DOMAIN executions : \A ctx \in CodeContexts :
      HasLine(executions[k].diff, PlusHeader(FooTs))
        => determineTargetFile(executions[k], parsedContextOf(ctx)) = FooTs

\* C5 as the code has it: a diff with the line "+++ b/foo.ts" resolves to
\* foo.ts for every split result when no earlier line of the diff starts
\* with +++ or ---.
C5_FirstHeaderWins ==
  reconPc = "done" =>
    \A k \in DOMAIN executions : \A ctx \in CodeContexts :
      IsFirstHeader(executions[k].diff, PlusHeader(FooTs))
        => determineTargetFile(executions[k], parsedContextOf(ctx)) = FooTs

\* the patch is applied to foo.ts, the second file of the split, and the
\* first file is returned unchanged
C5_Witness ==
  /\ Returned
  /\ codeContext = TwoFilesContext
  /\ executions = <<[diff |-> DiffPlusFoo]>>
  /\ reconstructedFiles.files[2].filename = FooTs
  /\ reconstructedFiles.files[2].totalChanges > 0
  /\ reconstructedFiles.files[1].totalChanges = 0

\* C6: reconstructFiles returns, for every file of the split to which no
\* execution resolves, a record with correctedContent equal to
\* originalContent, zero statistics and the summary 'No changes applied'.
C6_UnpatchedFilesReturned ==
  reconPc = "done" =>
    LET files == parsedContextOf(codeContext).files
        rfs == reconstructedFiles.files
    IN \A k \in DOMAIN files :
         PatchGroup(files[k].filename) = <<>> =>
           /\ ~reconstructedFiles.threw
           /\ k \in DOMAIN rfs
           /\ rfs[k].filename = files[k].filename
           /\ rfs[k].originalContent = files[k].content
           /\ rfs[k].correctedContent = files[k].content
           /\ rfs[k].linesAdded = 0
           /\ rfs[k].linesRemoved = 0
           /\ rfs[k].totalChanges = 0
           /\ rfs[k].changesSummary = "No changes applied"

\* C11: a call of reconstructFiles that follows another with the same code
\* context and the same accepted executions ends as the earlier one did, with
\* the same files in the same order and, for each, the same correctedContent,
\* linesAdded, linesRemoved, totalChanges and changesSummary, and the
\* arguments are what they were when the earlier call ended.
C11_SameResult ==
  (reconPc = "done" /\ earlierCalls # <<>>) =>
    \A c \in DOMAIN earlierCalls :
      /\ earlierCalls[c].codeContext = codeContext
      /\ earlierCalls[c].executions = executions
      /\ earlierCalls[c].result.threw = reconstructedFiles.threw
      /\ Len(earlierCalls[c].result.files) = Len(reconstructedFiles.files)
      /\ \A k \in DOMAIN reconstructedFiles.files :
           LET rf == reconstructedFiles.files[k]
               ef == earlierCalls[c].result.files[k]
           IN /\ rf.correctedContent = ef.correctedContent
              /\ rf.linesAdded = ef.linesAdded
              /\ rf.linesRemoved = ef.linesRemoved
              /\ rf.totalChanges = ef.totalChanges
              /\ rf.changesSummary = ef.changesSummary

\* the second call has ended, and a patch changed a file in both calls
C11_Witness ==
  /\ reconPc = "done"
  /\ Len(earlierCalls) = 1
  /\ ~reconstructedFiles.threw
  /\ \E k \in DOMAIN reconstructedFiles.files :
       /\ reconstructedFiles.files[k].totalChanges > 0
       /\ earlierCalls[1].result.files[k].totalChanges > 0

\* the file list of parseCodeContext is in parsedContext once the first
\* lines of reconstructFiles have run
Parsed == reconPc # "parse"

IsBlank(ctx) == trim(ctx) = <<>>

\* C30: for a non-blank code context, every accepted execution with a
\* non-empty diff resolves to the filename of a file that reconstructFiles
\* returns, so no accepted patch is dropped without a trace.
C30_PatchHasFile ==
  (Returned /\ ~IsBlank(codeContext)) =>
    \A k \in DOMAIN executions :
      executions[k].diff # <<>> =>
        \E j \in DOMAIN reconstructedFiles.files :
          reconstructedFiles.files[j].filename =
            determineTargetFile(executions[k], parsedContextOf(codeContext))

\* the same for the executions whose diff has no file-header line
C30_PatchWithoutHeaderHasFile ==
  (Returned /\ ~IsBlank(codeContext)) =>
    \A k \in DOMAIN executions :
      (executions[k].diff # <<>> /\ ~fileHeaderMatch(executions[k].diff).ok)
        => \E j \in DOMAIN reconstructedFiles.files :
             reconstructedFiles.files[j].filename =
               determineTargetFile(executions[k],
                                   parsedContextOf(codeContext))

\* C12: parseCodeContext returns: an empty file list for an empty or
\* whitespace-only input, and at least one file for every other input,
\* whichever of its patterns is the first to match.
C12_Total ==
  Parsed =>
    /\ IsBlank(codeContext) => Len(parsedContext.files) = 0
    /\ ~IsBlank(codeContext) => Len(parsedContext.files) >= 1

\* the single fence is no match of the third pattern: the fallback returns
\* its body as main.txt
C12_Witness ==
  /\ Parsed
  /\ codeContext = OneFenceContext
  /\ Len(parsedContext.files) = 1
  /\ parsedContext.files[1].filename = MainTxt
  /\ parsedContext.files[1].content = <<"a">>

\* C13 as claimed: for every input, blank input too, isSingleFile is true
\* if and only if the file list has exactly one element.
C13_SingleIffOne ==
  Parsed => (parsedContext.isSingleFile <=> Len(parsedContext.files) = 1)

\* C13 as the code has it: for an input that is not blank isSingleFile is
\* true if and only if the file list has exactly one element; for a blank
\* input isSingleFile is true and the file list is empty.
C13_SingleIffOneUnlessBlank ==
  Parsed =>
    /\ ~IsBlank(codeContext) =>
         (parsedContext.isSingleFile <=> Len(parsedContext.files) = 1)
    /\ IsBlank(codeContext) =>
         (parsedContext.isSingleFile /\ Len(parsedContext.files) = 0)

\* two named fences: two files, and isSingleFile is false
C13_Witness ==
  /\ Parsed
  /\ codeContext = TwoFilesContext
  /\ Len(parsedContext.files) = 2
  /\ ~parsedContext.isSingleFile

(***************************************************************************)
(* The response normalizer: parseStepExecutionResponse of parsers.ts and   *)
(* the route that calls it.                                                *)
(***************************************************************************)
\* JSON.parse on the grammar of the responses in play: objects, arrays,
\* strings with the escapes \" \\ \/ \f \n \r \t, integers, true, false and
\* null. A value is [type, ...]; an object holds its properties as a
\* function from names.
JsonWhiteSpace == {" ", "\t", "\n", "\r"}
JsonControl == {"\t", "\n", "\r", "\f"}
JsonEscaped ==
  [ch \in {"\"", "\\", "/", "f", "n", "r", "t"} |->
     CASE ch = "f" -> "\f" [] ch = "n" -> "\n" [] ch = "r" -> "\r"
       [] ch = "t" -> "\t" [] OTHER -> ch]
SyntaxError == [ok |-> FALSE]

SkipWhiteSpace(txt, p) == p + RunLength(RxIn(JsonWhiteSpace), txt, p)

At(txt, p, ch) == p <= Len(txt) /\ txt[p] = ch

\* the string whose opening quote is before index p
RECURSIVE JsonString(_, _, _)
JsonString(txt, p, acc) ==
  IF p > Len(txt) THEN SyntaxError
  ELSE IF txt[p] = "\"" THEN [ok |-> TRUE, s |-> acc, end |-> p + 1]
  ELSE IF txt[p] = "\\"
  THEN IF p + 1 <= Len(txt) /\ txt[p + 1] \in DOMAIN JsonEscaped
       THEN JsonString(txt, p + 2, Append(acc, JsonEscaped[txt[p + 1]]))
       ELSE SyntaxError
  ELSE IF txt[p] \in JsonControl THEN SyntaxError
  ELSE JsonString(txt, p + 1, Append(acc, txt[p]))

JsonNumber(txt, p) ==
  LET n == RunLength(RxIn(Digits), txt, p)
  IN IF n = 0 \/ (n > 1 /\ txt[p] = "0") THEN SyntaxError
     ELSE [ok |-> TRUE,
           v |-> [type |-> "number", n |-> parseInt(SubSeq(txt, p, p + n - 1))],
           end |-> p + n]

JsonLiteral(txt, p, word, v) ==
  IF SubSeq(txt, p, Min(Len(txt), p + Len(word) - 1)) = word
  THEN [ok |-> TRUE, v |-> v, end |-> p + Len(word)]
  ELSE SyntaxError

RECURSIVE JsonValue(_, _)
RECURSIVE JsonMember(_, _, _)
RECURSIVE JsonItem(_, _, _)
\* the value that starts at index p
JsonValue(txt, p) ==
  IF p > Len(txt) THEN SyntaxError
  ELSE IF txt[p] = "{"
  THEN IF At(txt, SkipWhiteSpace(txt, p + 1), "}")
       THEN [ok |-> TRUE, v |-> [type |-> "object", props |-> <<>>],
             end |-> SkipWhiteSpace(txt, p + 1) + 1]
       ELSE JsonMember(txt, SkipWhiteSpace(txt, p + 1), <<>>)
  ELSE IF txt[p] = "["
  THEN IF At(txt, SkipWhiteSpace(txt, p + 1), "]")
       THEN [ok |-> TRUE, v |-> [type |-> "array", items |-> <<>>],
             end |-> SkipWhiteSpace(txt, p + 1) + 1]
       ELSE JsonItem(txt, SkipWhiteSpace(txt, p + 1), <<>>)
  ELSE IF txt[p] = "\""
  THEN LET str == JsonString(txt, p + 1, <<>>)
       IN IF str.ok
          THEN [ok |-> TRUE, v |-> [type |-> "string", s |-> str.s],
                end |-> str.end]
          ELSE SyntaxError
  ELSE IF txt[p] \in Digits THEN JsonNumber(txt, p)
  ELSE IF txt[p] = "t"
  THEN JsonLiteral(txt, p, <<"t", "r", "u", "e">>,
                   [type |-> "boolean", b |-> TRUE])
  ELSE IF txt[p] = "f"
  THEN JsonLiteral(txt, p, <<"f", "a", "l", "s", "e">>,
                   [type |-> "boolean", b |-> FALSE])
  ELSE IF txt[p] = "n"
  THEN JsonLiteral(txt, p, <<"n", "u", "l", "l">>, [type |-> "null"])
  ELSE SyntaxError

\* the members of an object from the name at index p on; of two members
\* with one name the later one stays
JsonMember(txt, p, props) ==
  IF ~At(txt, p, "\"") THEN SyntaxError
  ELSE LET name == JsonString(txt, p + 1, <<>>)
       IN IF ~name.ok THEN SyntaxError
          ELSE LET colon == SkipWhiteSpace(txt, name.end)
               IN IF ~At(txt, colon, ":") THEN SyntaxError
                  ELSE LET val == JsonValue(txt, SkipWhiteSpace(txt, colon + 1))
                       IN IF ~val.ok THEN SyntaxError
                          ELSE LET q == SkipWhiteSpace(txt, val.end)
                                   all == [k \in DOMAIN props \cup {name.s} |->
                                             IF k = name.s THEN val.v
                                             ELSE props[k]]
                               IN IF At(txt, q, ",")
                                  THEN JsonMember(txt,
                                         SkipWhiteSpace(txt, q + 1), all)
                                  ELSE IF At(txt, q, "}")
                                  THEN [ok |-> TRUE,
                                        v |-> [type |-> "object",
                                               props |-> all],
                                        end |-> q + 1]
                                  ELSE SyntaxError

JsonItem(txt, p, items) ==
  LET val == JsonValue(txt, p)
  IN IF ~val.ok THEN SyntaxError
     ELSE LET q == SkipWhiteSpace(txt, val.end)
          IN IF At(txt, q, ",")
             THEN JsonItem(txt, SkipWhiteSpace(txt, q + 1),
                           Append(items, val.v))
             ELSE IF At(txt, q, "]")
             THEN [ok |-> TRUE,
                   v |-> [type |-> "array", items |-> Append(items, val.v)],
                   end |-> q + 1]
             ELSE SyntaxError

JsonParse(txt) ==
  LET val == JsonValue(txt, SkipWhiteSpace(txt, 1))
  IN IF val.ok /\ SkipWhiteSpace(txt, val.end) = Len(txt) + 1
     THEN [ok |-> TRUE, v |-> val.v]
     ELSE SyntaxError

\* a JavaScript value that is no JSON value
Undefined == [type |-> "undefined"]
StringValue(s) == [type |-> "string", s |-> s]

\* obj.name, for the names read by the validation: none of them is a
\* property of Object.prototype or Array.prototype
Prop(obj, name) ==
  IF obj.type = "object" /\ name \in DOMAIN obj.props THEN obj.props[name]
  ELSE Undefined

\* !v is false
Truthy(v) ==
  CASE v.type = "string" -> v.s # <<>>
    [] v.type = "number" -> v.n # 0
    [] v.type = "boolean" -> v.b
    [] v.type \in {"object", "array"} -> TRUE
    [] OTHER -> FALSE

IsString(v) == v.type = "string"
\* typeof v === "object" for a truthy v
IsObject(v) == v.type \in {"object", "array"}

\* txt.replace(re, rep) for a pattern without the g flag
RxReplaceFirst(re, txt, rep) ==
  LET m == RxSearch(re, txt, 1)
  IN IF ~m.ok THEN txt
     ELSE SubSeq(txt, 1, m.start - 1) \o rep \o SubSeq(txt, m.end, Len(txt))

\* txt.replace(re, rep) for a g-flagged pattern that matches no empty string
RECURSIVE RxReplaceAll(_, _, _, _)
RxReplaceAll(re, txt, from, rep) ==
  LET m == RxSearch(re, txt, from)
  IN IF ~m.ok THEN SubSeq(txt, from, Len(txt))
     ELSE SubSeq(txt, from, m.start - 1) \o rep
          \o RxReplaceAll(re, txt, m.end, rep)

\* txt.replace(/c/g, rep) for a single character c
ReplaceChar(txt, c, rep) ==
  FlatSeq([k \in 1..Len(txt) |-> IF txt[k] = c THEN rep ELSE <<txt[k]>>])

StepIdName == <<"s", "t", "e", "p", "_", "i", "d">>
SuggestedPatchName == <<"s", "u", "g", "g", "e", "s", "t", "e", "d", "_", "p", "a", "t", "c", "h">>
FormatName == <<"f", "o", "r", "m", "a", "t">>
DiffName == <<"d", "i", "f", "f">>
ExplanationName == <<"e", "x", "p", "l", "a", "n", "a", "t", "i", "o", "n">>
UnifiedDiff == <<"u", "n", "i", "f", "i", "e", "d", "_", "d", "i", "f", "f">>
FullFile == <<"f", "u", "l", "l", "_", "f", "i", "l", "e">>

\* . of a pattern without the s flag
RxDot == RxNotIn({NL, "\r"})
RxNotQuote == RxNotIn({"\""})
RxSpaces == RxStar(RxIn(WhiteSpace))
\* "name":\s*"
RxField(name) ==
  RxCat(<<RxChr("\""), RxLit(name), RxLit(<<"\"", ":">>), RxSpaces,
          RxChr("\"")>>)
\* [^"]*(?:\\.[^"]*)*?
RxQuotedBody ==
  RxCat(<<RxStar(RxNotQuote),
          RxRep(RxCat(<<RxChr("\\"), RxDot, RxStar(RxNotQuote)>>), TRUE)>>)

\* /^```(?:json)?\s*/m and /\s*```\s*$/m
openingFencePattern ==
  RxCat(<<RxBol(TRUE), RxLit(Fence), RxOpt(RxLit(<<"j", "s", "o", "n">>)),
          RxSpaces>>)
closingFencePattern ==
  RxCat(<<RxSpaces, RxLit(Fence), RxSpaces, RxEol(TRUE)>>)
\* /\{[\s\S]*\}/
jsonObjectPattern == RxCat(<<RxChr("{"), RxStar(RxAny), RxChr("}")>>)
\* /"diff":\s*"([^"]*(?:\\.[^"]*)*?)"/g
diffPattern == RxCat(<<RxField(DiffName), RxCap(1, RxQuotedBody), RxChr("\"")>>)
\* /"step_id":\s*"([^"]+)"/
stepIdPattern ==
  RxCat(<<RxField(StepIdName), RxCap(1, RxPlus(RxNotQuote)), RxChr("\"")>>)
\* /"explanation":\s*"([^"]*(?:\\.[^"]*)*?)"/
explanationPattern ==
  RxCat(<<RxField(ExplanationName), RxCap(1, RxQuotedBody), RxChr("\"")>>)
\* /"suggested_patch":\s*\{([^}]*(?:\{[^}]*\}[^}]*)*)\}/
patchPattern ==
  RxCat(<<RxChr("\""), RxLit(SuggestedPatchName), RxLit(<<"\"", ":">>),
          RxSpaces, RxChr("{"),
          RxCap(1, RxCat(<<RxStar(RxNotIn({"}"})),
                           RxRep(RxCat(<<RxChr("{"), RxStar(RxNotIn({"}"})),
                                         RxChr("}"), RxStar(RxNotIn({"}"}))>>),
                                 FALSE)>>)),
          RxChr("}")>>)
\* /"format":\s*"([^"]+)"/
formatPattern ==
  RxCat(<<RxField(FormatName), RxCap(1, RxPlus(RxNotQuote)), RxChr("\"")>>)
\* /"diff":\s*"([\s\S]*?)"\s*}/
manualDiffPattern ==
  RxCat(<<RxField(DiffName), RxCap(1, RxStarLazy(RxAny)), RxChr("\""),
          RxSpaces, RxChr("}")>>)
\* /\\"/g and /\\n/g
escapedQuotePattern == RxLit(<<"\\", "\"">>)
escapedNewlinePattern == RxLit(<<"\\", "n">>)

\* lines 78-90: the response without its code fence markers, and the span
\* from its first { to its last }
withoutFences(text) ==
  RxReplaceFirst(closingFencePattern,
                 RxReplaceFirst(openingFencePattern, text, <<>>), <<>>)

jsonMatch(text) == RxSearch(jsonObjectPattern, withoutFences(text), 1)

rawJsonOf(text) ==
  SubSeq(withoutFences(text), jsonMatch(text).start,
         jsonMatch(text).end - 1)

\* lines 125-130: the callback of fixMalformedJsonDiff
escapedDiff(diffContent) ==
  ReplaceChar(
    ReplaceChar(
      ReplaceChar(
        ReplaceChar(
          ReplaceChar(diffContent, "\\", <<"\\", "\\">>),
          "\"", <<"\\", "\"">>),
        NL, <<"\\", "n">>),
      "\r", <<"\\", "r">>),
    "\t", <<"\\", "t">>)

RECURSIVE fixMalformedJsonDiffFrom(_, _)
fixMalformedJsonDiffFrom(jsonString, from) ==
  LET m == RxSearch(diffPattern, jsonString, from)
  IN IF ~m.ok THEN SubSeq(jsonString, from, Len(jsonString))
     ELSE SubSeq(jsonString, from, m.start - 1)
          \o <<"\"">> \o DiffName \o <<"\"", ":", " ", "\"">>
          \o escapedDiff(RxGroup(jsonString, m, 1)) \o <<"\"">>
          \o fixMalformedJsonDiffFrom(jsonString, m.end)

fixMalformedJsonDiff(jsonString) == fixMalformedJsonDiffFrom(jsonString, 1)

\* lines 139-171
extractStepExecutionManually(jsonString) ==
  LET stepIdMatch == RxSearch(stepIdPattern, jsonString, 1)
      explanationMatch == RxSearch(explanationPattern, jsonString, 1)
      patchMatch == RxSearch(patchPattern, jsonString, 1)
      patchContent == RxGroup(jsonString, patchMatch, 1)
      formatMatch == RxSearch(formatPattern, patchContent, 1)
      diffMatch == RxSearch(manualDiffPattern, jsonString, 1)
      stepId ==
        IF stepIdMatch.ok
        THEN StepIdName :> StringValue(RxGroup(jsonString, stepIdMatch, 1))
        ELSE <<>>
      explanation ==
        IF explanationMatch.ok
        THEN ExplanationName :>
               StringValue(
                 RxReplaceAll(escapedNewlinePattern,
                   RxReplaceAll(escapedQuotePattern,
                     RxGroup(jsonString, explanationMatch, 1), 1, <<"\"">>),
                   1, <<NL>>))
        ELSE <<>>
      patch ==
        IF patchMatch.ok /\ formatMatch.ok /\ diffMatch.ok
        THEN SuggestedPatchName :>
               [type |-> "object",
                props |->
                  (FormatName :> StringValue(RxGroup(patchContent, formatMatch, 1)))
                  @@ (DiffName :>
                        StringValue(
                          RxReplaceAll(escapedQuotePattern,
                            RxReplaceAll(escapedNewlinePattern,
                              RxGroup(jsonString, diffMatch, 1), 1, <<NL>>),
                            1, <<"\"">>)))]
        ELSE <<>>
  IN [type |-> "object", props |-> stepId @@ explanation @@ patch]

\* a ParseError: message, and originalResponse when the constructor got it
ParseError(message, given, originalResponse) ==
  [threw |-> TRUE, message |-> message, hasOriginalResponse |-> given,
   originalResponse |-> originalResponse]

\* new ParseError(message): originalResponse is undefined
ParseErrorOf(message) == ParseError(message, FALSE, <<>>)

\* lines 179-228
parseValidatedStepExecution(parsed) ==
  LET suggestedPatch == Prop(parsed, SuggestedPatchName)
  IN IF ~Truthy(Prop(parsed, StepIdName)) \/ ~IsString(Prop(parsed, StepIdName))
     THEN ParseErrorOf("Missing or invalid \"step_id\" field")
     ELSE IF ~Truthy(suggestedPatch) \/ ~IsObject(suggestedPatch)
     THEN ParseErrorOf("Missing or invalid \"suggested_patch\" object")
     ELSE IF \/ ~Truthy(Prop(suggestedPatch, FormatName))
             \/ ~IsString(Prop(suggestedPatch, FormatName))
     THEN ParseErrorOf("Missing or invalid patch format")
     ELSE IF \/ ~Truthy(Prop(suggestedPatch, DiffName))
             \/ ~IsString(Prop(suggestedPatch, DiffName))
     THEN ParseErrorOf("Missing or invalid patch diff")
     ELSE IF \/ ~Truthy(Prop(parsed, ExplanationName))
             \/ ~IsString(Prop(parsed, ExplanationName))
     THEN ParseErrorOf("Missing or invalid \"explanation\" field")
     ELSE IF Prop(suggestedPatch, FormatName).s \notin {UnifiedDiff, FullFile}
     THEN ParseErrorOf("Invalid patch format")
     ELSE [threw |-> FALSE,
           stepExecution |->
             [step_id |-> trim(Prop(parsed, StepIdName).s),
              format |-> Prop(suggestedPatch, FormatName).s,
              diff |-> Prop(suggestedPatch, DiffName).s,
              explanation |-> trim(Prop(parsed, ExplanationName).s)]]

\* lines 95-96, 100-102 and 105-106: the three attempts, each on rawJson;
\* a SyntaxError of JSON.parse is [threw, syntax]
SyntaxErrorThrown == [threw |-> TRUE, syntax |-> TRUE]

strictParse(jsonString) ==
  IF JsonParse(jsonString).ok
  THEN parseValidatedStepExecution(JsonParse(jsonString).v)
  ELSE SyntaxErrorThrown

firstAttempt(jsonString) == strictParse(jsonString)
secondAttempt(jsonString) == strictParse(fixMalformedJsonDiff(jsonString))
thirdAttempt(jsonString) ==
  parseValidatedStepExecution(extractStepExecutionManually(jsonString))

(***************************************************************************)
(* Responses of the generation service.                                    *)
(***************************************************************************)
\* a well-formed object with every field
ValidResponse ==
  <<"{", "\"", "s", "t", "e", "p", "_", "i", "d", "\"", ":", "\"", "s",
    "\"", ",", "\"", "s", "u", "g", "g", "e", "s", "t", "e", "d", "_", "p",
    "a", "t", "c", "h", "\"", ":", "{", "\"", "f", "o", "r", "m", "a", "t",
    "\"", ":", "\"", "f", "u", "l", "l", "_", "f", "i", "l", "e", "\"",
    ",", "\"", "d", "i", "f", "f", "\"", ":", "\"", "d", "\"", "}", ",",
    "\"", "e", "x", "p", "l", "a", "n", "a", "t", "i", "o", "n", "\"", ":",
    "\"", "e", "\"", "}">>

\* the same inside a json code fence
FencedResponse ==
  <<BackTick, BackTick, BackTick, "j", "s", "o", "n", "\n", "{", "\"", "s",
    "t", "e", "p", "_", "i", "d", "\"", ":", "\"", "s", "\"", ",", "\"",
    "s", "u", "g", "g", "e", "s", "t", "e", "d", "_", "p", "a", "t", "c",
    "h", "\"", ":", "{", "\"", "f", "o", "r", "m", "a", "t", "\"", ":",
    "\"", "u", "n", "i", "f", "i", "e", "d", "_", "d", "i", "f", "f", "\"",
    ",", "\"", "d", "i", "f", "f", "\"", ":", "\"", "d", "\"", "}", ",",
    "\"", "e", "x", "p", "l", "a", "n", "a", "t", "i", "o", "n", "\"", ":",
    "\"", "e", "\"", "}", "\n", BackTick, BackTick, BackTick>>

\* the same between words
ProseResponse ==
  <<"o", "k", " ", "{", "\"", "s", "t", "e", "p", "_", "i", "d", "\"", ":",
    "\"", "s", "\"", ",", "\"", "s", "u", "g", "g", "e", "s", "t", "e",
    "d", "_", "p", "a", "t", "c", "h", "\"", ":", "{", "\"", "f", "o", "r",
    "m", "a", "t", "\"", ":", "\"", "f", "u", "l", "l", "_", "f", "i", "l",
    "e", "\"", ",", "\"", "d", "i", "f", "f", "\"", ":", "\"", "d", "\"",
    "}", ",", "\"", "e", "x", "p", "l", "a", "n", "a", "t", "i", "o", "n",
    "\"", ":", "\"", "e", "\"", "}", " ", ".">>

\* no brace at all
NoJsonResponse ==
  <<"n", "o", " ", "j", "s", "o", "n">>

\* a line break inside the diff string, not escaped
RawNewlineResponse ==
  <<"{", "\"", "s", "t", "e", "p", "_", "i", "d", "\"", ":", "\"", "s",
    "\"", ",", "\"", "s", "u", "g", "g", "e", "s", "t", "e", "d", "_", "p",
    "a", "t", "c", "h", "\"", ":", "{", "\"", "f", "o", "r", "m", "a", "t",
    "\"", ":", "\"", "f", "u", "l", "l", "_", "f", "i", "l", "e", "\"",
    ",", "\"", "d", "i", "f", "f", "\"", ":", "\"", "a", "\n", "b", "\"",
    "}", ",", "\"", "e", "x", "p", "l", "a", "n", "a", "t", "i", "o", "n",
    "\"", ":", "\"", "e", "\"", "}">>

\* a line break inside the diff string, escaped
EscapedNewlineResponse ==
  <<"{", "\"", "s", "t", "e", "p", "_", "i", "d", "\"", ":", "\"", "s",
    "\"", ",", "\"", "s", "u", "g", "g", "e", "s", "t", "e", "d", "_", "p",
    "a", "t", "c", "h", "\"", ":", "{", "\"", "f", "o", "r", "m", "a", "t",
    "\"", ":", "\"", "f", "u", "l", "l", "_", "f", "i", "l", "e", "\"",
    ",", "\"", "d", "i", "f", "f", "\"", ":", "\"", "a", "\\", "n", "b",
    "\"", "}", ",", "\"", "e", "x", "p", "l", "a", "n", "a", "t", "i", "o",
    "n", "\"", ":", "\"", "e", "\"", "}">>

\* the fields without the commas between them
NoCommaResponse ==
  <<"{", "\"", "s", "t", "e", "p", "_", "i", "d", "\"", ":", "\"", "s",
    "\"", " ", "\"", "s", "u", "g", "g", "e", "s", "t", "e", "d", "_", "p",
    "a", "t", "c", "h", "\"", ":", "{", "\"", "f", "o", "r", "m", "a", "t",
    "\"", ":", "\"", "f", "u", "l", "l", "_", "f", "i", "l", "e", "\"",
    ",", "\"", "d", "i", "f", "f", "\"", ":", "\"", "d", "\"", "}", " ",
    "\"", "e", "x", "p", "l", "a", "n", "a", "t", "i", "o", "n", "\"", ":",
    "\"", "e", "\"", "}">>

\* well-formed, the step_id is one space
BlankStepIdResponse ==
  <<"{", "\"", "s", "t", "e", "p", "_", "i", "d", "\"", ":", "\"", " ",
    "\"", ",", "\"", "s", "u", "g", "g", "e", "s", "t", "e", "d", "_", "p",
    "a", "t", "c", "h", "\"", ":", "{", "\"", "f", "o", "r", "m", "a", "t",
    "\"", ":", "\"", "f", "u", "l", "l", "_", "f", "i", "l", "e", "\"",
    ",", "\"", "d", "i", "f", "f", "\"", ":", "\"", "d", "\"", "}", ",",
    "\"", "e", "x", "p", "l", "a", "n", "a", "t", "i", "o", "n", "\"", ":",
    "\"", "e", "\"", "}">>

\* well-formed, the explanation is one space
BlankExplanationResponse ==
  <<"{", "\"", "s", "t", "e", "p", "_", "i", "d", "\"", ":", "\"", "s",
    "\"", ",", "\"", "s", "u", "g", "g", "e", "s", "t", "e", "d", "_", "p",
    "a", "t", "c", "h", "\"", ":", "{", "\"", "f", "o", "r", "m", "a", "t",
    "\"", ":", "\"", "f", "u", "l", "l", "_", "f", "i", "l", "e", "\"",
    ",", "\"", "d", "i", "f", "f", "\"", ":", "\"", "d", "\"", "}", ",",
    "\"", "e", "x", "p", "l", "a", "n", "a", "t", "i", "o", "n", "\"", ":",
    "\"", " ", "\"", "}">>

\* well-formed, the format is neither of the two
BadFormatResponse ==
  <<"{", "\"", "s", "t", "e", "p", "_", "i", "d", "\"", ":", "\"", "s",
    "\"", ",", "\"", "s", "u", "g", "g", "e", "s", "t", "e", "d", "_", "p",
    "a", "t", "c", "h", "\"", ":", "{", "\"", "f", "o", "r", "m", "a", "t",
    "\"", ":", "\"", "p", "a", "t", "c", "h", "\"", ",", "\"", "d", "i",
    "f", "f", "\"", ":", "\"", "d", "\"", "}", ",", "\"", "e", "x", "p",
    "l", "a", "n", "a", "t", "i", "o", "n", "\"", ":", "\"", "e", "\"",
    "}">>

\* well-formed, the step_id is a property of an inner object
NestedStepIdResponse ==
  <<"{", "\"", "d", "a", "t", "a", "\"", ":", "{", "\"", "s", "t", "e",
    "p", "_", "i", "d", "\"", ":", "\"", "s", "\"", "}", ",", "\"", "s",
    "u", "g", "g", "e", "s", "t", "e", "d", "_", "p", "a", "t", "c", "h",
    "\"", ":", "{", "\"", "f", "o", "r", "m", "a", "t", "\"", ":", "\"",
    "f", "u", "l", "l", "_", "f", "i", "l", "e", "\"", ",", "\"", "d", "i",
    "f", "f", "\"", ":", "\"", "d", "\"", "}", ",", "\"", "e", "x", "p",
    "l", "a", "n", "a", "t", "i", "o", "n", "\"", ":", "\"", "e", "\"",
    "}">>

\* well-formed, no field
EmptyObjectResponse ==
  <<"{", "}">>

\* braces around a word
BrokenResponse ==
  <<"{", "x", "}">>

Responses ==
  {ValidResponse,
   FencedResponse,
   ProseResponse,
   NoJsonResponse,
   RawNewlineResponse,
   EscapedNewlineResponse,
   NoCommaResponse,
   BlankStepIdResponse,
   BlankExplanationResponse,
   BadFormatResponse,
   NestedStepIdResponse,
   EmptyObjectResponse,
   BrokenResponse}

\* the ids of the step in the request: the one the responses name, another
\* one, and one with a space in front
BodyStepIds == {<<"s">>, <<"t">>, <<" ", "s">>}

InitNorm ==
  /\ ViewerOff
  /\ ApplyOff
  /\ StatsOff
  /\ HookOff
  /\ ReconOff
  /\ bodyStepId \in BodyStepIds
  /\ response \in Responses
  /\ rawJson = <<>>
  /\ attempts = <<>>
  /\ parseOutcome = NotParsed
  /\ reply = NoReply
  /\ normPc = "extract"

\* parsers.ts lines 78-90: strip the fence markers, find the JSON span
ExtractJson ==
  /\ normPc = "extract"
  /\ IF jsonMatch(response).ok
     THEN /\ rawJson' = rawJsonOf(response)
          /\ normPc' = "first"
          /\ UNCHANGED parseOutcome
     ELSE /\ parseOutcome' =
               ParseError("No JSON object found in response", TRUE, response)
          /\ normPc' = "route"
          /\ UNCHANGED rawJson
  /\ UNCHANGED <<bodyStepId, response, attempts, reply>>
  /\ UNCHANGED notNormVars

\* lines 93-97: JSON.parse and the validation in one try block; its catch
\* has no parameter and takes every exception
FirstAttempt ==
  /\ normPc = "first"
  /\ attempts' = Append(attempts, 1)
  /\ parseOutcome' = firstAttempt(rawJson)
  /\ normPc' = IF parseOutcome'.threw THEN "second" ELSE "route"
  /\ UNCHANGED <<bodyStepId, response, rawJson, reply>>
  /\ UNCHANGED notNormVars

\* lines 98-103
SecondAttempt ==
  /\ normPc = "second"
  /\ attempts' = Append(attempts, 2)
  /\ parseOutcome' = secondAttempt(rawJson)
  /\ normPc' = IF parseOutcome'.threw THEN "third" ELSE "route"
  /\ UNCHANGED <<bodyStepId, response, rawJson, reply>>
  /\ UNCHANGED notNormVars

\* lines 104-112: the ParseError of the validation leaves the function as
\* it is (line 110)
ThirdAttempt ==
  /\ normPc = "third"
  /\ attempts' = Append(attempts, 3)
  /\ parseOutcome' = thirdAttempt(rawJson)
  /\ normPc' = "route"
  /\ UNCHANGED <<bodyStepId, response, rawJson, reply>>
  /\ UNCHANGED notNormVars

\* the execute-step route, line 136: stepExecution.step_id = body.step.id
stepIdKept(stepExecution, id) == stepExecution

stepIdOverwritten(stepExecution, id) == [stepExecution EXCEPT !.step_id = id]

\* the execute-step route, lines 131-152
Post ==
  /\ normPc = "route"
  /\ reply' =
       IF parseOutcome.threw
       THEN [status |-> 502,
             details |-> parseOutcome.message,
             hasOriginalResponse |-> parseOutcome.hasOriginalResponse,
             originalResponse |-> parseOutcome.originalResponse]
       ELSE [status |-> 200,
             stepExecution |->
               stepIdOverwritten(parseOutcome.stepExecution, bodyStepId)]
  /\ normPc' = "done"
  /\ UNCHANGED <<bodyStepId, response, rawJson, attempts, parseOutcome>>
  /\ UNCHANGED notNormVars

NextNorm ==
  \/ ExtractJson
  \/ FirstAttempt
  \/ SecondAttempt
  \/ ThirdAttempt
  \/ Post

SpecNorm == InitNorm /\ [][NextNorm]_vars

(***************************************************************************)
(* Claims on the normalizer.                                               *)
(***************************************************************************)
\* parseStepExecutionResponse has returned or thrown
ParseEnded == normPc \in {"route", "done"}

\* C14: a StepExecution returned by parseStepExecutionResponse has a
\* non-empty step_id, a non-empty explanation, a non-empty diff and a format
\* that is one of 'unified_diff' and 'full_file', whichever attempt produced
\* it.
C14_ReturnedFieldsNonEmpty ==
  (ParseEnded /\ ~parseOutcome.threw) =>
    /\ parseOutcome.stepExecution.step_id # <<>>
    /\ parseOutcome.stepExecution.explanation # <<>>
    /\ parseOutcome.stepExecution.diff # <<>>
    /\ parseOutcome.stepExecution.format \in {UnifiedDiff, FullFile}

\* C15: the attempts are made in order, each after the one before it threw,
\* and when strict JSON parsing of the extracted span succeeds the first
\* attempt is the only one made and its outcome is the outcome of
\* parseStepExecutionResponse.
C15_FirstAttemptAlone ==
  (ParseEnded /\ attempts # <<>>) =>
    /\ attempts \in {<<1>>, <<1, 2>>, <<1, 2, 3>>}
    /\ JsonParse(rawJson).ok =>
         /\ attempts = <<1>>
         /\ parseOutcome = firstAttempt(rawJson)

\* C16: a ParseError thrown by parseStepExecutionResponse carries the raw
\* response text in originalResponse.
C16_OriginalResponseCarried ==
  (ParseEnded /\ parseOutcome.threw) =>
    /\ parseOutcome.hasOriginalResponse
    /\ parseOutcome.originalResponse = response

\* C17: the step_id of the StepExecution in a successful reply of the
\* execute-step route is the id of the step in the request.
C17_StepIdOfRequest ==
  (normPc = "done" /\ reply.status = 200) =>
    reply.stepExecution.step_id = bodyStepId

\* the generation service named the step s, the request named it t
C17_Witness ==
  /\ normPc = "done"
  /\ reply.status = 200
  /\ bodyStepId = <<"t">>
  /\ parseOutcome.stepExecution.step_id = <<"s">>
  /\ reply.stepExecution.step_id = <<"t">>

(***************************************************************************)
(* DiffViewer: the parse of the diff into the records it renders           *)
(***************************************************************************)
\* /@@ -(\d+),?\d* \+(\d+),?\d* @@/
viewerHunkPattern ==
  RxCat(<<RxLit(<<"@", "@", " ", "-">>), RxCap(1, RxPlus(RxIn(Digits))),
          RxOpt(RxChr(",")), RxStar(RxIn(Digits)),
          RxLit(<<" ", "+">>), RxCap(2, RxPlus(RxIn(Digits))),
          RxOpt(RxChr(",")), RxStar(RxIn(Digits)), RxLit(<<" ", "@", "@">>)>>)

\* the lines of the diffs shown: hunk headers with and without counts, with
\* old and new starts that differ, lines that start with "@@" and are no
\* hunk header, file headers, changes, context, empty and unmarked lines
ViewerLinePool ==
  {<<"@", "@", " ", "-", "2", ",", "1", " ", "+", "1", ",", "1", " ", "@", "@">>, <<"@", "@", " ", "-", "1", " ", "+", "2", " ", "@", "@">>,
   <<"@", "@", " ", "-", "0", ",", "0", " ", "+", "1", ",", "1", " ", "@", "@">>, <<"@", "@">>, <<"@", "@", " ", " ", "-", "1", ",", "1", " ", "+", "1", ",", "1", " ", "@", "@">>,
   MinusHeader(FooTs), PlusHeader(FooTs),
   <<"+", "x">>, <<"-", "a">>, <<" ", "a">>, <<>>, <<"x">>}

ViewerDiffs ==
  {join(ls) : ls \in SeqsUpTo(ViewerLinePool, MaxDiffLines) \ {<<>>}}

\* line.match(viewerHunkPattern), computed once for each line of the pool
ViewerHunkMatches ==
  [line \in ViewerLinePool |-> RxSearch(viewerHunkPattern, line, 1)]

viewerHunkMatch(line) == ViewerHunkMatches[line]

startsWithText(line, prefix) ==
  Len(line) >= Len(prefix) /\ SubSeq(line, 1, Len(prefix)) = prefix

Counters == [old |-> oldLineNum, new |-> newLineNum]

\* lines 61-66: the counters after a line that starts with "@@"
countersAtHunkReset(cur, line) ==
  IF viewerHunkMatch(line).ok
  THEN [old |-> parseInt(RxGroup(line, viewerHunkMatch(line), 1)),
        new |-> parseInt(RxGroup(line, viewerHunkMatch(line), 2))]
  ELSE [old |-> 0, new |-> 0]

countersAtHunk(cur, line) ==
  IF viewerHunkMatch(line).ok
  THEN [old |-> parseInt(RxGroup(line, viewerHunkMatch(line), 1)),
        new |-> parseInt(RxGroup(line, viewerHunkMatch(line), 2))]
  ELSE cur

\* the records pushed: a record without lineNumber has no such field
HunkRecord(line) == [type |-> "hunk", content |-> line]

HeaderRecord(line) == [type |-> "header", content |-> line]

AdditionRecord(line, cur) ==
  [type |-> "addition", content |-> substring(line, 1),
   lineNumber |-> [new |-> cur.new]]

DeletionRecord(line, cur) ==
  [type |-> "deletion", content |-> substring(line, 1),
   lineNumber |-> [old |-> cur.old]]

ContextRecord(line, cur) ==
  [type |-> "context",
   content |-> IF startsWith(line, " ") THEN substring(line, 1) ELSE line,
   lineNumber |-> [old |-> cur.old, new |-> cur.new]]

UnknownRecord(line, cur) ==
  [type |-> "context", content |-> line,
   lineNumber |-> [old |-> cur.old, new |-> cur.new]]

\* lines 44-48: format 'full_file'
fullFileRecords(ls) ==
  [index \in 1..Len(ls) |->
     [type |-> "context", content |-> ls[index],
      lineNumber |-> [new |-> (index - 1) + 1]]]

ViewerFormats == {UnifiedDiff, FullFile}

InitViewer ==
  /\ NormOff
  /\ ApplyOff
  /\ StatsOff
  /\ HookOff
  /\ ReconOff
  /\ viewerFormat \in ViewerFormats
  /\ viewerDiff \in ViewerDiffs
  /\ viewerLines = split(viewerDiff)
  /\ parsedDiff = <<>>
  /\ oldLineNum = 0
  /\ newLineNum = 0
  /\ viewerIndex = 0
  /\ viewerPc = "parse"

\* lines 43-49
ParseFullFile ==
  /\ viewerPc = "parse"
  /\ viewerFormat = FullFile
  /\ parsedDiff' = fullFileRecords(viewerLines)
  /\ viewerPc' = "done"
  /\ UNCHANGED <<viewerFormat, viewerDiff, viewerLines, oldLineNum,
                 newLineNum, viewerIndex>>
  /\ UNCHANGED notViewerVars

\* lines 52-55
ParseUnifiedDiff ==
  /\ viewerPc = "parse"
  /\ viewerFormat # FullFile
  /\ viewerPc' = "loop"
  /\ UNCHANGED <<viewerFormat, viewerDiff, viewerLines, parsedDiff,
                 oldLineNum, newLineNum, viewerIndex>>
  /\ UNCHANGED notViewerVars

InViewerLoop == viewerPc = "loop" /\ viewerIndex < Len(viewerLines)

viewerLine == viewerLines[viewerIndex + 1]

\* one iteration of the for loop: the record pushed, the counters after it
Push(record, cur) ==
  /\ parsedDiff' = Append(parsedDiff, record)
  /\ oldLineNum' = cur.old
  /\ newLineNum' = cur.new
  /\ viewerIndex' = viewerIndex + 1
  /\ UNCHANGED <<viewerFormat, viewerDiff, viewerLines, viewerPc>>
  /\ UNCHANGED notViewerVars

IsHunkLine(line) == startsWithText(line, <<"@", "@">>)

IsHeaderLine(line) ==
  startsWithText(line, <<"-", "-", "-">>)
    \/ startsWithText(line, <<"+", "+", "+">>)

\* lines 58-69
PushHunk ==
  /\ InViewerLoop
  /\ IsHunkLine(viewerLine)
  /\ Push(HunkRecord(viewerLine), countersAtHunk(Counters, viewerLine))

\* lines 70-75
PushHeader ==
  /\ InViewerLoop
  /\ ~IsHunkLine(viewerLine)
  /\ IsHeaderLine(viewerLine)
  /\ Push(HeaderRecord(viewerLine), Counters)

\* lines 76-83
PushAddition ==
  /\ InViewerLoop
  /\ ~IsHunkLine(viewerLine)
  /\ ~IsHeaderLine(viewerLine)
  /\ startsWith(viewerLine, "+")
  /\ Push(AdditionRecord(viewerLine, Counters),
          [Counters EXCEPT !.new = newLineNum + 1])

\* lines 84-91
PushDeletion ==
  /\ InViewerLoop
  /\ ~IsHunkLine(viewerLine)
  /\ ~IsHeaderLine(viewerLine)
  /\ ~startsWith(viewerLine, "+")
  /\ startsWith(viewerLine, "-")
  /\ Push(DeletionRecord(viewerLine, Counters),
          [Counters EXCEPT !.old = oldLineNum + 1])

\* lines 92-100
PushContext ==
  /\ InViewerLoop
  /\ ~IsHunkLine(viewerLine)
  /\ ~IsHeaderLine(viewerLine)
  /\ ~startsWith(viewerLine, "+")
  /\ ~startsWith(viewerLine, "-")
  /\ startsWith(viewerLine, " ") \/ viewerLine = <<>>
  /\ Push(ContextRecord(viewerLine, Counters),
          [old |-> oldLineNum + 1, new |-> newLineNum + 1])

\* lines 101-110
PushUnknown ==
  /\ InViewerLoop
  /\ ~IsHunkLine(viewerLine)
  /\ ~IsHeaderLine(viewerLine)
  /\ ~startsWith(viewerLine, "+")
  /\ ~startsWith(viewerLine, "-")
  /\ ~(startsWith(viewerLine, " ") \/ viewerLine = <<>>)
  /\ Push(UnknownRecord(viewerLine, Counters),
          [old |-> oldLineNum + 1, new |-> newLineNum + 1])

\* line 112
ReturnParsed ==
  /\ viewerPc = "loop"
  /\ viewerIndex >= Len(viewerLines)
  /\ viewerPc' = "done"
  /\ UNCHANGED <<viewerFormat, viewerDiff, viewerLines, parsedDiff,
                 oldLineNum, newLineNum, viewerIndex>>
  /\ UNCHANGED notViewerVars

NextViewer ==
  \/ ParseFullFile
  \/ ParseUnifiedDiff
  \/ PushHunk
  \/ PushHeader
  \/ PushAddition
  \/ PushDeletion
  \/ PushContext
  \/ PushUnknown
  \/ ReturnParsed

SpecViewer == InitViewer /\ [][NextViewer]_vars

(***************************************************************************)
(* Claims about the parse of DiffViewer.                                   *)
(***************************************************************************)
\* C22: in the unified-diff parse each input line pushes exactly one record;
\* a line that starts with "@@" pushes a hunk record and, when it matches the
\* hunk pattern, sets the two counters to the oldStart and newStart of the
\* header, and otherwise leaves them as they are; no other line decreases
\* a counter.
C22_CountersResetAtHunkOnly ==
  [][(viewerPc = "loop" /\ viewerPc' = "loop") =>
       /\ Len(parsedDiff') = Len(parsedDiff) + 1
       /\ Len(parsedDiff') = viewerIndex'
       /\ IF IsHunkLine(viewerLine)
          THEN /\ parsedDiff'[viewerIndex'] = HunkRecord(viewerLine)
               /\ IF viewerHunkMatch(viewerLine).ok
                  THEN /\ oldLineNum' = parseInt(RxGroup(viewerLine,
                                           viewerHunkMatch(viewerLine), 1))
                       /\ newLineNum' = parseInt(RxGroup(viewerLine,
                                           viewerHunkMatch(viewerLine), 2))
                  ELSE /\ oldLineNum' = oldLineNum
                       /\ newLineNum' = newLineNum
          ELSE /\ oldLineNum' >= oldLineNum
               /\ newLineNum' >= newLineNum]_vars

\* a matching hunk header lowered the old counter, and a line that starts
\* with "@@" without matching was parsed as well
C22_Witness ==
  /\ viewerPc = "done"
  /\ viewerFormat = UnifiedDiff
  /\ Len(parsedDiff) = Len(viewerLines)
  /\ \E k \in 2..Len(parsedDiff) :
       /\ parsedDiff[k].type = "hunk"
       /\ viewerHunkMatch(viewerLines[k]).ok
       /\ parsedDiff[k - 1].type = "context"
       /\ parsedDiff[k - 1].lineNumber.old + 1
            > parseInt(RxGroup(viewerLines[k], viewerHunkMatch(viewerLines[k]), 1))
  /\ \E k \in 1..Len(parsedDiff) :
       /\ parsedDiff[k].type = "hunk"
       /\ ~viewerHunkMatch(viewerLines[k]).ok

LineNumberKeys(record) ==
  IF "lineNumber" \in DOMAIN record THEN DOMAIN record.lineNumber ELSE {}

\* C23: each record of the parse carries the line numbers of its kind (a
\* deletion an old number, an addition a new number, a context line both, a
\* header or hunk record none), and every line number is at least 1.
C23_LineNumbersByKind ==
  \A k \in 1..Len(parsedDiff) :
    /\ LineNumberKeys(parsedDiff[k]) =
         CASE parsedDiff[k].type = "deletion" -> {"old"}
           [] parsedDiff[k].type = "addition" -> {"new"}
           [] parsedDiff[k].type = "context" -> {"old", "new"}
           [] OTHER -> {}
    /\ \A key \in LineNumberKeys(parsedDiff[k]) :
         parsedDiff[k].lineNumber[key] >= 1

\* the same for the unified-diff parse alone, without the lower bound
C23_KeysByKindInUnifiedDiff ==
  viewerFormat = UnifiedDiff =>
    \A k \in 1..Len(parsedDiff) :
      LineNumberKeys(parsedDiff[k]) =
        CASE parsedDiff[k].type = "deletion" -> {"old"}
          [] parsedDiff[k].type = "addition" -> {"new"}
          [] parsedDiff[k].type = "context" -> {"old", "new"}
          [] OTHER -> {}

====
